---- MODULE Spec2Model ----
(***************************************************************************)
(* Model of the decision engine of the trading bot                         *)
(* (backend/app/auto/decision_engine.py): the daily-loss breaker, the      *)
(* indicator table, the filter gate, the LONG/SHORT signal builders, the   *)
(* position sizing and the bounded decision/order histories.               *)
(*                                                                         *)
(* Numbers.  The code works on floats; the model works on exact integers:  *)
(*   - candle prices and volumes are integers ("ticks");                   *)
(*   - the columns of the indicator table are in "points":                 *)
(*     a price point is 1/ATR_PERIOD tick, so that the 14-row rolling mean *)
(*     of the true range is the integer sum of the window; a volume point  *)
(*     is 1/ROLL_WINDOW unit, so that the 20-row rolling mean of volume is *)
(*     the integer sum of the window;                                      *)
(*   - entry, sl, tp1..tp3 of a signal are in half points, so that         *)
(*     0.5 * atr is exact;                                                 *)
(*   - a quantity is an exact fraction [num, den];                         *)
(*   - every comparison against a decimal threshold (0.003, 0.001, 0.5,    *)
(*     1.2, 0.10) is cross-multiplied.                                     *)
(* EMA, RSI, MACD and the Bollinger bands are float recurrences over the   *)
(* whole series (and a square root): their values on the last two rows are *)
(* inputs of the model (the "oracle" record), drawn from bounded sets.     *)
(* Reason strings are the code's, with accents dropped.                    *)
(***************************************************************************)
EXTENDS Integers, Sequences, FiniteSets, TLC

VARIABLES
    DAILY_PNL,    \* module global DAILY_PNL
    DAILY_DATE,   \* module global DAILY_DATE (None before the first evaluation)
    DECISIONS,    \* deque(maxlen=500) of decision dicts
    ORDERS,       \* deque(maxlen=1000) of order dicts
    utcnow,       \* the wall clock read by datetime.utcnow()
    call,         \* arguments of the last evaluate_and_maybe_trade call
    ret,          \* what that call returned: [decision, order]
    fin,          \* input of the pure-function specifications
    fout,         \* result of the pure function applied to fin
    threads,      \* the evaluate_and_maybe_trade calls running in threads
    backoff,      \* auto_runner.backoff: symbol -> seconds
    last_trade_at,\* auto_runner.last_trade_at: symbol -> time of the last order
    loop,         \* decision_loop: its position and what it has seen
    stream        \* BinanceWs.stream: its position and its local backoff

vars == <<DAILY_PNL, DAILY_DATE, DECISIONS, ORDERS, utcnow, call, ret, fin, fout,
          threads, backoff, last_trade_at, loop, stream>>

\* The state outside the sequential engine.
outside == <<threads, backoff, last_trade_at, loop, stream>>

-----------------------------------------------------------------------------
(* Program constants *)

RISK_PER_TRADE_NUM == 1
RISK_PER_TRADE_DEN == 100
MAX_DAILY_LOSS_NUM == 1
MAX_DAILY_LOSS_DEN == 10
MAX_LEVERAGE == 20
MIN_CANDLES_REQUIRED == 60
DECISIONS_MAXLEN == 500
ORDERS_MAXLEN == 1000
ATR_PERIOD == 14
ROLL_WINDOW == 20
CONFIDENCE_CONFIRMED == 8      \* 0.8, in tenths
CONFIDENCE_NONE == 0           \* 0.0

\* Python's None and pandas' NaN: two values outside every range of the model.
None == -2000000
NaN == -1000000

isna(x) == x = NaN

\* Float comparisons: any comparison with NaN is False.
Lt(a, b) == ~isna(a) /\ ~isna(b) /\ a < b
Le(a, b) == ~isna(a) /\ ~isna(b) /\ a <= b
Gt(a, b) == Lt(b, a)
Ge(a, b) == Le(b, a)

Abs(x) == IF x < 0 THEN -x ELSE x
Max2(a, b) == IF a >= b THEN a ELSE b
Min2(a, b) == IF a <= b THEN a ELSE b
SetMax(S) == CHOOSE x \in S : \A y \in S : y <= x
SetMin(S) == CHOOSE x \in S : \A y \in S : x <= y

RECURSIVE SeqSum(_)
SeqSum(s) == IF s = <<>> THEN 0 ELSE Head(s) + SeqSum(Tail(s))

-----------------------------------------------------------------------------
(* Bounds of the model *)

MaxCalls == 2          \* evaluations in one run
MaxClock == 3          \* last instant of the wall clock
TicksPerDay == 2       \* clock instants per UTC day
MaxPnl == 1            \* daily_pnl figures are -MaxPnl..MaxPnl
MaxFails == 3          \* failures in a row that decision_loop's record counts
NumThreads == 2        \* evaluate_and_maybe_trade calls that run concurrently

BasePrice == 100       \* price the synthetic series start from, in ticks
Wick == 1              \* wick of every candle of a synthetic series
Jump == 5              \* body of the last candle of a synthetic series
BaseVolume == 10       \* volume of every candle but the last
SurgeFactor == 3       \* the last candle's volume surge, times BaseVolume
EmaGap == 14           \* distance between the EMA values the oracle offers, in points
RowClose == 2000       \* close of the indicator rows given to the signal functions
RowVolMa == 10         \* vol_ma20 of those rows

-----------------------------------------------------------------------------
(* Candles: the input of compute_indicators *)

Candle(o, h, l, c, v, t) ==
    [open |-> o, high |-> h, low |-> l, close |-> c, volume |-> v, timestamp |-> t]

\* A well-formed candle: low <= open, close <= high.
WellFormed(c) ==
    /\ {"open", "high", "low", "close"} \subseteq DOMAIN c
    /\ c.low <= c.open /\ c.open <= c.high
    /\ c.low <= c.close /\ c.close <= c.high

RampClose(dir, i) == BasePrice + dir * i

\* Candle i of a series that moves one tick per candle in direction dir.
RampCandle(dir, i) ==
    LET o == RampClose(dir, i - 1)
        c == RampClose(dir, i)
    IN  Candle(o, Max2(o, c) + Wick, Min2(o, c) - Wick, c, BaseVolume, i)

\* The last candle (row n) of a synthetic series.
\*   surge:     well formed, a body of Jump, a wider range, a volume surge
\*   nowick:    as surge, closing exactly on its extreme (no wick on that side)
\*   overshoot: as surge but malformed: the close lies outside [low, high]
\*   quiet:     a ramp candle with a thin volume
LastCandle(dir, shape, n) ==
    LET o == RampClose(dir, n - 1)
        c == o + dir * Jump
        hi == Max2(o, c)
        lo == Min2(o, c)
        v == SurgeFactor * BaseVolume
    IN  CASE shape = "surge" -> Candle(o, hi + Wick + 1, lo - Wick - 1, c, v, n)
          [] shape = "nowick" ->
                IF dir > 0 THEN Candle(o, c, lo - Wick - Jump, c, v, n)
                           ELSE Candle(o, hi + Wick + Jump, c, c, v, n)
          [] shape = "overshoot" ->
                IF dir > 0 THEN Candle(o, c - 1, lo - Wick - Jump, c, v, n)
                           ELSE Candle(o, hi + Wick + Jump, c + 1, c, v, n)
          [] OTHER -> [RampCandle(dir, n) EXCEPT !.volume = 1]

Series(dir, shape, n) ==
    [i \in 1..n |-> IF i < n THEN RampCandle(dir, i) ELSE LastCandle(dir, shape, n)]

Shapes == {"surge", "nowick", "overshoot", "quiet"}

Reverse(s) == [i \in 1..Len(s) |-> s[Len(s) + 1 - i]]

\* The candles that carry "ts" in place of "timestamp".
WithTs(s) ==
    [i \in 1..Len(s) |->
        [open |-> s[i].open, high |-> s[i].high, low |-> s[i].low,
         close |-> s[i].close, volume |-> s[i].volume, ts |-> s[i].timestamp]]

\* The candles without one of their fields.
Without(s, f) ==
    [i \in 1..Len(s) |-> [k \in DOMAIN s[i] \ {f} |-> s[i][k]]]

-----------------------------------------------------------------------------
(* The indicator table *)

\* pd.DataFrame(candles).columns: a key of any candle is a column.
Columns(candles) == UNION {DOMAIN candles[i] : i \in 1..Len(candles)}

\* df["timestamp"] after line 155: the "ts" column when there is one.
TimestampOf(c) == IF "ts" \in DOMAIN c THEN c.ts ELSE c.timestamp

\* df.sort_values("timestamp").reset_index(drop=True): row i is the candle
\* with i - 1 smaller timestamps (the timestamps of one series are distinct).
SortByTimestamp(s) ==
    LET n == Len(s)
        ts == [j \in 1..n |-> TimestampOf(s[j])] \o <<>>
        rank == [j \in 1..n |-> Cardinality({k \in 1..n : ts[k] < ts[j]})] \o <<>>
    IN  [i \in 1..n |-> s[CHOOSE j \in 1..n : rank[j] = i - 1]] \o <<>>

\* True range of row i: max(high - low, |high - prev_close|, |low - prev_close|);
\* on the first row prev_close is NaN and max(axis=1) skips it.
TrueRange(s, i) ==
    IF i = 1 THEN s[1].high - s[1].low
    ELSE SetMax({s[i].high - s[i].low,
                 Abs(s[i].high - s[i - 1].close),
                 Abs(s[i].low - s[i - 1].close)})

\* _atr(df, 14) on row i, in points: rolling(14).mean() of the true range is NaN
\* until the window is full, and then sum / 14 ticks = sum points.
atr14(s, i) ==
    IF i < ATR_PERIOD THEN NaN
    ELSE SeqSum([k \in 1..ATR_PERIOD |-> TrueRange(s, i - ATR_PERIOD + k)])

\* df["high"].rolling(20).max() on row i, in points: the window ends at row i.
hh_20(s, i) ==
    IF i < ROLL_WINDOW THEN NaN
    ELSE ATR_PERIOD * SetMax({s[k].high : k \in (i - ROLL_WINDOW + 1)..i})

\* df["low"].rolling(20).min() on row i, in points.
ll_20(s, i) ==
    IF i < ROLL_WINDOW THEN NaN
    ELSE ATR_PERIOD * SetMin({s[k].low : k \in (i - ROLL_WINDOW + 1)..i})

\* df["volume"].rolling(20).mean() on row i, in volume points.
vol_ma20(s, i) ==
    IF i < ROLL_WINDOW THEN NaN
    ELSE SeqSum([k \in 1..ROLL_WINDOW |-> s[i - ROLL_WINDOW + k].volume])

\* Row i of the table, without the float columns. The columns the code never
\* reads (open, high, low, dt, macd, macd_signal, bb_mid) are left out.
Row(s, i) ==
    [close |-> ATR_PERIOD * s[i].close,
     volume |-> ROLL_WINDOW * s[i].volume,
     atr14 |-> atr14(s, i),
     hh_20 |-> hh_20(s, i),
     ll_20 |-> ll_20(s, i),
     vol_ma20 |-> vol_ma20(s, i)]

\* The table as the engine reads it: its length, its last row (df.iloc[-1]),
\* the row before (df.iloc[-2]) and the timestamp of the last row.
Table(s) ==
    LET n == Len(s)
    IN  [len |-> n,
         row |-> Row(s, n),
         prev_row |-> IF n >= 2 THEN Row(s, n - 1) ELSE Row(s, n),
         timestamp |-> TimestampOf(s[n])]

\* The order of the loop of line 167 over the required columns.
ColumnOrder(c) ==
    CASE c = "open" -> 1 [] c = "high" -> 2 [] c = "low" -> 3
      [] c = "close" -> 4 [] OTHER -> 5

\* compute_indicators, but for the float columns: [ok, error, df]; ok = FALSE
\* stands for the ValueError raised with message error.
compute_indicators(candles) ==
    IF Len(candles) = 0
    THEN [ok |-> FALSE, error |-> "Liste de candles vide", df |-> None]
    ELSE IF ~({"ts", "timestamp"} \cap Columns(candles) # {})
    THEN [ok |-> FALSE,
          error |-> "Il manque une colonne 'timestamp' ou 'ts' dans les candles",
          df |-> None]
    ELSE IF {"open", "high", "low", "close", "volume"} \ Columns(candles) # {}
    THEN LET missing == {"open", "high", "low", "close", "volume"} \ Columns(candles)
             first == CHOOSE c \in missing :
                        \A d \in missing : ColumnOrder(c) <= ColumnOrder(d)
         IN  [ok |-> FALSE,
              error |-> "Colonne '" \o first \o "' manquante dans les candles",
              df |-> None]
    ELSE [ok |-> TRUE, error |-> "", df |-> Table(SortByTimestamp(candles))]

\* The float columns of the last two rows (lines 172-181): ema20, ema50, rsi14,
\* macd_hist, bb_upper and bb_lower of the last row, macd_hist of the row before.
WithFloatColumns(df, o) ==
    [len |-> df.len,
     timestamp |-> df.timestamp,
     row |-> [close |-> df.row.close, volume |-> df.row.volume,
              atr14 |-> df.row.atr14, hh_20 |-> df.row.hh_20,
              ll_20 |-> df.row.ll_20, vol_ma20 |-> df.row.vol_ma20,
              ema20 |-> o.ema20, ema50 |-> o.ema50, rsi14 |-> o.rsi14,
              macd_hist |-> o.macd_hist, bb_upper |-> o.bb_upper,
              bb_lower |-> o.bb_lower],
     prev_row |-> [atr14 |-> df.prev_row.atr14, macd_hist |-> o.prev_macd_hist]]

-----------------------------------------------------------------------------
(* The filter gate *)

\* a / c < p / q for c > 0 and q > 0; False when a or c is NaN.
RatioLt(a, c, p, q) == ~isna(a) /\ ~isna(c) /\ a * q < p * c

R_ATR_NAN == "Indicateurs insuffisants (ATR NaN ou close <= 0)."
R_LOW_VOLATILITY == "Volatilite trop faible (ATR/close < 0.3%)."
R_EMA_NAN == "Indicateurs de tendance insuffisants (EMA NaN)."
R_NO_DIRECTION == "Pas de direction claire (EMA20 ~ EMA50)."
R_VOL_MA == "Volume moyen insuffisant."
R_LOW_VOLUME == "Volume trop faible (< 50% de la moyenne)."
R_ATR_FLAT == "Volatilite non croissante (ATR pas en expansion)."

\* The gate with a strict comparison in the expansion check of line 230.
_passes_filters_flat(row, prev_row) ==
    LET close == row.close
        atr == row.atr14
        ema20 == row.ema20
        ema50 == row.ema50
        vol == row.volume
        vol_ma == row.vol_ma20
        prev_atr == prev_row.atr14
    IN  IF isna(atr) \/ Le(close, 0) THEN [ok |-> FALSE, reason |-> R_ATR_NAN]
        ELSE IF RatioLt(atr, close, 3, 1000)
        THEN [ok |-> FALSE, reason |-> R_LOW_VOLATILITY]
        ELSE IF isna(ema20) \/ isna(ema50) THEN [ok |-> FALSE, reason |-> R_EMA_NAN]
        ELSE IF RatioLt(Abs(ema20 - ema50), close, 1, 1000)
        THEN [ok |-> FALSE, reason |-> R_NO_DIRECTION]
        ELSE IF isna(vol_ma) \/ vol_ma = 0 THEN [ok |-> FALSE, reason |-> R_VOL_MA]
        ELSE IF ~isna(vol) /\ Lt(2 * vol, vol_ma)
        THEN [ok |-> FALSE, reason |-> R_LOW_VOLUME]
        ELSE IF ~isna(prev_atr) /\ atr < prev_atr
        THEN [ok |-> FALSE, reason |-> R_ATR_FLAT]
        ELSE [ok |-> TRUE, reason |-> ""]

\* The gate with the volume checks ahead of the EMA checks.
_passes_filters_swapped(row, prev_row) ==
    LET close == row.close
        atr == row.atr14
        ema20 == row.ema20
        ema50 == row.ema50
        vol == row.volume
        vol_ma == row.vol_ma20
        prev_atr == prev_row.atr14
    IN  IF isna(atr) \/ Le(close, 0) THEN [ok |-> FALSE, reason |-> R_ATR_NAN]
        ELSE IF RatioLt(atr, close, 3, 1000)
        THEN [ok |-> FALSE, reason |-> R_LOW_VOLATILITY]
        ELSE IF isna(vol_ma) \/ vol_ma = 0 THEN [ok |-> FALSE, reason |-> R_VOL_MA]
        ELSE IF ~isna(vol) /\ Lt(2 * vol, vol_ma)
        THEN [ok |-> FALSE, reason |-> R_LOW_VOLUME]
        ELSE IF isna(ema20) \/ isna(ema50) THEN [ok |-> FALSE, reason |-> R_EMA_NAN]
        ELSE IF RatioLt(Abs(ema20 - ema50), close, 1, 1000)
        THEN [ok |-> FALSE, reason |-> R_NO_DIRECTION]
        ELSE IF ~isna(prev_atr) /\ atr <= prev_atr
        THEN [ok |-> FALSE, reason |-> R_ATR_FLAT]
        ELSE [ok |-> TRUE, reason |-> ""]

\* The gate without the volatility floor of line 207.
_passes_filters_no_floor(row, prev_row) ==
    LET close == row.close
        atr == row.atr14
        ema20 == row.ema20
        ema50 == row.ema50
        vol == row.volume
        vol_ma == row.vol_ma20
        prev_atr == prev_row.atr14
    IN  IF isna(atr) \/ Le(close, 0) THEN [ok |-> FALSE, reason |-> R_ATR_NAN]
        ELSE IF isna(ema20) \/ isna(ema50) THEN [ok |-> FALSE, reason |-> R_EMA_NAN]
        ELSE IF RatioLt(Abs(ema20 - ema50), close, 1, 1000)
        THEN [ok |-> FALSE, reason |-> R_NO_DIRECTION]
        ELSE IF isna(vol_ma) \/ vol_ma = 0 THEN [ok |-> FALSE, reason |-> R_VOL_MA]
        ELSE IF ~isna(vol) /\ Lt(2 * vol, vol_ma)
        THEN [ok |-> FALSE, reason |-> R_LOW_VOLUME]
        ELSE IF ~isna(prev_atr) /\ atr <= prev_atr
        THEN [ok |-> FALSE, reason |-> R_ATR_FLAT]
        ELSE [ok |-> TRUE, reason |-> ""]

\* Lines 195-233.
_passes_filters(row, prev_row) ==
    LET close == row.close
        atr == row.atr14
        ema20 == row.ema20
        ema50 == row.ema50
        vol == row.volume
        vol_ma == row.vol_ma20
        prev_atr == prev_row.atr14
    IN  IF isna(atr) \/ Le(close, 0) THEN [ok |-> FALSE, reason |-> R_ATR_NAN]
        ELSE IF RatioLt(atr, close, 3, 1000)
        THEN [ok |-> FALSE, reason |-> R_LOW_VOLATILITY]
        ELSE IF isna(ema20) \/ isna(ema50) THEN [ok |-> FALSE, reason |-> R_EMA_NAN]
        ELSE IF RatioLt(Abs(ema20 - ema50), close, 1, 1000)
        THEN [ok |-> FALSE, reason |-> R_NO_DIRECTION]
        ELSE IF isna(vol_ma) \/ vol_ma = 0 THEN [ok |-> FALSE, reason |-> R_VOL_MA]
        ELSE IF ~isna(vol) /\ Lt(2 * vol, vol_ma)
        THEN [ok |-> FALSE, reason |-> R_LOW_VOLUME]
        ELSE IF ~isna(prev_atr) /\ atr <= prev_atr
        THEN [ok |-> FALSE, reason |-> R_ATR_FLAT]
        ELSE [ok |-> TRUE, reason |-> ""]

-----------------------------------------------------------------------------
(* The signal builders *)

\* Signal(symbol, timeframe, action, reason, mode, confidence): the levels
\* default to None.
Signal(symbol, timeframe, action, reason, mode, confidence) ==
    [symbol |-> symbol, timeframe |-> timeframe, action |-> action,
     reason |-> reason, mode |-> mode, confidence |-> confidence,
     entry |-> None, sl |-> None, tp1 |-> None, tp2 |-> None, tp3 |-> None]

NoSignal(symbol, timeframe, reason) ==
    Signal(symbol, timeframe, "NONE", reason, "MOMENTUM_BREAKOUT", CONFIDENCE_NONE)

R_LONG_TREND == "Pas de tendance haussiere claire."
R_LONG_BREAKOUT == "Pas de breakout haussier valide."
R_LONG_RSI == "RSI pas assez fort pour un long (>55)."
R_LONG_MACD == "MACD histogram non haussier / non croissant."
R_LONG_SL == "SL calcule invalide (>= entry)."
R_LONG_OK == "Long breakout haussier valide (trend, volume, RSI, MACD, ATR)."

R_SHORT_TREND == "Pas de tendance baissiere claire."
R_SHORT_BREAKOUT == "Pas de breakout baissier valide."
R_SHORT_RSI == "RSI pas assez faible pour un short (<45)."
R_SHORT_MACD == "MACD histogram non baissier / non decroissant."
R_SHORT_SL == "SL calcule invalide (<= entry)."
R_SHORT_OK == "Short breakout baissier valide (trend, volume, RSI, MACD, ATR)."

\* The levels of a LONG with the stop half an ATR above the 20-bar high.
LongLevels_stop_above(row) ==
    [entry |-> 2 * row.close,
     sl |-> 2 * row.hh_20 + row.atr14,
     tp1 |-> 2 * row.close + 2 * row.atr14,
     tp2 |-> 2 * row.close + 4 * row.atr14,
     tp3 |-> 2 * row.close + 6 * row.atr14]

\* The levels of a LONG, in half points: entry = close, sl = hh_20 - 0.5 * atr,
\* tp_k = entry + k * atr.
LongLevels(row) ==
    [entry |-> 2 * row.close,
     sl |-> 2 * row.hh_20 - row.atr14,
     tp1 |-> 2 * row.close + 2 * row.atr14,
     tp2 |-> 2 * row.close + 4 * row.atr14,
     tp3 |-> 2 * row.close + 6 * row.atr14]

\* The levels of a SHORT, in half points: sl = ll_20 + 0.5 * atr,
\* tp_k = entry - k * atr.
ShortLevels(row) ==
    [entry |-> 2 * row.close,
     sl |-> 2 * row.ll_20 + row.atr14,
     tp1 |-> 2 * row.close - 2 * row.atr14,
     tp2 |-> 2 * row.close - 4 * row.atr14,
     tp3 |-> 2 * row.close - 6 * row.atr14]

Confirmed(symbol, timeframe, action, reason, lv) ==
    [symbol |-> symbol, timeframe |-> timeframe, action |-> action,
     reason |-> reason, mode |-> "MOMENTUM_BREAKOUT",
     confidence |-> CONFIDENCE_CONFIRMED,
     entry |-> lv.entry, sl |-> lv.sl, tp1 |-> lv.tp1, tp2 |-> lv.tp2, tp3 |-> lv.tp3]

\* The LONG builder with the RSI test ahead of the breakout test.
_build_long_signal_rsi_first(symbol, timeframe, df) ==
    LET row == df.row
        prev_row == df.prev_row
        f == _passes_filters(row, prev_row)
        trend_up == Gt(row.ema20, row.ema50)
        breakout == /\ Gt(row.close, row.hh_20)
                    /\ ~isna(row.volume) /\ ~isna(row.vol_ma20)
                    /\ 10 * row.volume > 12 * row.vol_ma20
                    /\ Gt(row.close, row.bb_upper)
        rsi_cond == Gt(row.rsi14, 55)
        macd_cond == Gt(row.macd_hist, 0) /\ Ge(row.macd_hist, prev_row.macd_hist)
        lv == LongLevels(row)
    IN  IF ~f.ok THEN NoSignal(symbol, timeframe, f.reason)
        ELSE IF ~trend_up THEN NoSignal(symbol, timeframe, R_LONG_TREND)
        ELSE IF ~rsi_cond THEN NoSignal(symbol, timeframe, R_LONG_RSI)
        ELSE IF ~breakout THEN NoSignal(symbol, timeframe, R_LONG_BREAKOUT)
        ELSE IF ~macd_cond THEN NoSignal(symbol, timeframe, R_LONG_MACD)
        ELSE IF lv.sl >= lv.entry THEN NoSignal(symbol, timeframe, R_LONG_SL)
        ELSE Confirmed(symbol, timeframe, "LONG", R_LONG_OK, lv)

\* Lines 236-297.
_build_long_signal(symbol, timeframe, df) ==
    LET row == df.row
        prev_row == df.prev_row
        f == _passes_filters(row, prev_row)
        trend_up == Gt(row.ema20, row.ema50)
        breakout == /\ Gt(row.close, row.hh_20)
                    /\ ~isna(row.volume) /\ ~isna(row.vol_ma20)
                    /\ 10 * row.volume > 12 * row.vol_ma20
                    /\ Gt(row.close, row.bb_upper)
        rsi_cond == Gt(row.rsi14, 55)
        macd_cond == Gt(row.macd_hist, 0) /\ Ge(row.macd_hist, prev_row.macd_hist)
        lv == LongLevels(row)
    IN  IF ~f.ok THEN NoSignal(symbol, timeframe, f.reason)
        ELSE IF ~trend_up THEN NoSignal(symbol, timeframe, R_LONG_TREND)
        ELSE IF ~breakout THEN NoSignal(symbol, timeframe, R_LONG_BREAKOUT)
        ELSE IF ~rsi_cond THEN NoSignal(symbol, timeframe, R_LONG_RSI)
        ELSE IF ~macd_cond THEN NoSignal(symbol, timeframe, R_LONG_MACD)
        ELSE IF lv.sl >= lv.entry THEN NoSignal(symbol, timeframe, R_LONG_SL)
        ELSE Confirmed(symbol, timeframe, "LONG", R_LONG_OK, lv)

\* The SHORT builder without the trend test of line 324.
_build_short_signal_no_trend(symbol, timeframe, df) ==
    LET row == df.row
        prev_row == df.prev_row
        f == _passes_filters(row, prev_row)
        trend_down == Lt(row.ema20, row.ema50)
        breakout == /\ Lt(row.close, row.ll_20)
                    /\ ~isna(row.volume) /\ ~isna(row.vol_ma20)
                    /\ 10 * row.volume > 12 * row.vol_ma20
                    /\ Lt(row.close, row.bb_lower)
        rsi_cond == Lt(row.rsi14, 45)
        macd_cond == Lt(row.macd_hist, 0) /\ Le(row.macd_hist, prev_row.macd_hist)
        lv == ShortLevels(row)
    IN  IF ~f.ok THEN NoSignal(symbol, timeframe, f.reason)
        ELSE IF ~breakout THEN NoSignal(symbol, timeframe, R_SHORT_BREAKOUT)
        ELSE IF ~rsi_cond THEN NoSignal(symbol, timeframe, R_SHORT_RSI)
        ELSE IF ~macd_cond THEN NoSignal(symbol, timeframe, R_SHORT_MACD)
        ELSE IF lv.sl <= lv.entry THEN NoSignal(symbol, timeframe, R_SHORT_SL)
        ELSE Confirmed(symbol, timeframe, "SHORT", R_SHORT_OK, lv)

\* Lines 300-360.
_build_short_signal(symbol, timeframe, df) ==
    LET row == df.row
        prev_row == df.prev_row
        f == _passes_filters(row, prev_row)
        trend_down == Lt(row.ema20, row.ema50)
        breakout == /\ Lt(row.close, row.ll_20)
                    /\ ~isna(row.volume) /\ ~isna(row.vol_ma20)
                    /\ 10 * row.volume > 12 * row.vol_ma20
                    /\ Lt(row.close, row.bb_lower)
        rsi_cond == Lt(row.rsi14, 45)
        macd_cond == Lt(row.macd_hist, 0) /\ Le(row.macd_hist, prev_row.macd_hist)
        lv == ShortLevels(row)
    IN  IF ~f.ok THEN NoSignal(symbol, timeframe, f.reason)
        ELSE IF ~trend_down THEN NoSignal(symbol, timeframe, R_SHORT_TREND)
        ELSE IF ~breakout THEN NoSignal(symbol, timeframe, R_SHORT_BREAKOUT)
        ELSE IF ~rsi_cond THEN NoSignal(symbol, timeframe, R_SHORT_RSI)
        ELSE IF ~macd_cond THEN NoSignal(symbol, timeframe, R_SHORT_MACD)
        ELSE IF lv.sl <= lv.entry THEN NoSignal(symbol, timeframe, R_SHORT_SL)
        ELSE Confirmed(symbol, timeframe, "SHORT", R_SHORT_OK, lv)

R_HISTORY(n) ==
    "Pas assez d'historique (" \o ToString(n) \o " < "
        \o ToString(MIN_CANDLES_REQUIRED) \o ")."

\* generate_signal with the LONG evaluation first whatever the trend.
generate_signal_long_first(symbol, timeframe, df) ==
    IF df.len < MIN_CANDLES_REQUIRED
    THEN NoSignal(symbol, timeframe, R_HISTORY(df.len))
    ELSE LET long_sig == _build_long_signal(symbol, timeframe, df)
         IN  IF long_sig.action = "LONG" THEN long_sig
             ELSE _build_short_signal(symbol, timeframe, df)

\* generate_signal without the length test of line 367.
generate_signal_no_history(symbol, timeframe, df) ==
    IF Lt(df.row.ema20, df.row.ema50)
    THEN LET short_sig == _build_short_signal(symbol, timeframe, df)
         IN  IF short_sig.action = "SHORT" THEN short_sig
             ELSE _build_long_signal(symbol, timeframe, df)
    ELSE LET long_sig == _build_long_signal(symbol, timeframe, df)
         IN  IF long_sig.action = "LONG" THEN long_sig
             ELSE _build_short_signal(symbol, timeframe, df)

\* Lines 363-393.
generate_signal(symbol, timeframe, df) ==
    IF df.len < MIN_CANDLES_REQUIRED
    THEN NoSignal(symbol, timeframe, R_HISTORY(df.len))
    ELSE IF Lt(df.row.ema20, df.row.ema50)
    THEN LET short_sig == _build_short_signal(symbol, timeframe, df)
         IN  IF short_sig.action = "SHORT" THEN short_sig
             ELSE _build_long_signal(symbol, timeframe, df)
    ELSE LET long_sig == _build_long_signal(symbol, timeframe, df)
         IN  IF long_sig.action = "LONG" THEN long_sig
             ELSE _build_short_signal(symbol, timeframe, df)

-----------------------------------------------------------------------------
(* Sizing *)

RECURSIVE Gcd(_, _)
Gcd(a, b) == IF b = 0 THEN a ELSE Gcd(b, a % b)

\* The fraction n / d (d > 0), in lowest terms.
Frac(n, d) ==
    LET g == Gcd(Abs(n), d)
    IN  [num |-> n \div g, den |-> d \div g]

FracLe(x, y) == x.num * y.den <= y.num * x.den
FracPositive(x) == x.num > 0

\* Half points in one tick: the unit of entry and sl.
LevelsPerTick == 2 * ATR_PERIOD

\* The sizing on the signed distance entry - sl.
_compute_position_size_signed(equity, entry, sl) ==
    LET distance == entry - sl
        qty == Frac(equity * RISK_PER_TRADE_NUM * LevelsPerTick,
                    RISK_PER_TRADE_DEN * Abs(distance))
    IN  IF distance <= 0 THEN Frac(0, 1)
        ELSE IF qty.num > 0 THEN qty ELSE Frac(0, 1)

\* risk_usd = equity * RISK_PER_TRADE; distance = |entry - sl| in ticks;
\* qty = max(risk_usd / distance, 0), and 0 when distance <= 0.
_compute_position_size(equity, entry, sl) ==
    LET distance == Abs(entry - sl)
        qty == Frac(equity * RISK_PER_TRADE_NUM * LevelsPerTick,
                    RISK_PER_TRADE_DEN * distance)
    IN  IF distance <= 0 THEN Frac(0, 1)
        ELSE IF qty.num > 0 THEN qty ELSE Frac(0, 1)

\* The clamp to max_notional itself, not divided by entry.
_respect_leverage_constraints_notional(equity, entry, qty) ==
    IF qty.num * entry <= equity * MAX_LEVERAGE * LevelsPerTick * qty.den
    THEN qty
    ELSE IF entry <= 0 THEN Frac(0, 1)
    ELSE Frac(equity * MAX_LEVERAGE, 1)

\* notional = qty * entry; max_notional = equity * MAX_LEVERAGE.
_respect_leverage_constraints(equity, entry, qty) ==
    IF qty.num * entry <= equity * MAX_LEVERAGE * LevelsPerTick * qty.den
    THEN qty
    ELSE IF entry <= 0 THEN Frac(0, 1)
    ELSE Frac(equity * MAX_LEVERAGE * LevelsPerTick, entry)

-----------------------------------------------------------------------------
(* evaluate_and_maybe_trade *)

\* The daily_pnl argument left out of the call (the parameter's default applies).
Omitted == -3000000

\* Parameter binding of daily_pnl: float = 0.0.
BindDailyPnl(arg) == IF arg = Omitted THEN 0 ELSE arg

\* datetime.utcnow().date()
UtcDate(now) == now \div TicksPerDay

\* Rollover without its date test: every call resets the daily PnL.
Rollover_every_call(date, pnl, now_date) == [date |-> now_date, pnl |-> 0]

\* Lines 444-447: a new UTC date resets the daily PnL.
Rollover(date, pnl, now_date) ==
    IF date = None \/ date # now_date
    THEN [date |-> now_date, pnl |-> 0]
    ELSE [date |-> date, pnl |-> pnl]

\* The caller's figure added to the stored one.
Override_accumulate(pnl, daily_pnl) == IF daily_pnl # None THEN pnl + daily_pnl ELSE pnl

\* Lines 450-451: the caller's figure replaces the stored one.
Override(pnl, daily_pnl) == IF daily_pnl # None THEN daily_pnl ELSE pnl

\* Lines 444-451 in the other order: the override, then the rollover.
DailyState_override_first(date, pnl, now_date, daily_pnl) ==
    Rollover(date, Override(pnl, daily_pnl), now_date)

\* Lines 444-451 in the code's order: the rollover, then the override.
DailyState(date, pnl, now_date, daily_pnl) ==
    LET r == Rollover(date, pnl, now_date)
    IN  [date |-> r.date, pnl |-> Override(r.pnl, daily_pnl)]

\* Line 454 with a strict comparison.
BreakerTripped_strict(pnl, equity) ==
    pnl * MAX_DAILY_LOSS_DEN < -(MAX_DAILY_LOSS_NUM * equity)

\* Line 454: DAILY_PNL <= -MAX_DAILY_LOSS * equity.
BreakerTripped(pnl, equity) ==
    pnl * MAX_DAILY_LOSS_DEN <= -(MAX_DAILY_LOSS_NUM * equity)

\* The reason without the text of the exception.
R_ERROR_generic(e) == "Erreur compute_indicators"

\* f"Daily loss limit atteint ({DAILY_PNL:.2%})."
R_RISK_STOP(pnl) == "Daily loss limit atteint (" \o ToString(100 * pnl) \o ".00%)."

R_ERROR(e) == "Erreur compute_indicators: " \o e

R_QTY_ZERO == " | Taille calculee nulle (qty <= 0)."

\* The decision dicts of lines 455-463 and 471-479: no level keys.
PlainDecision(symbol, timeframe, reason, mode, now) ==
    [symbol |-> symbol, timeframe |-> timeframe, action |-> "NONE",
     reason |-> reason, mode |-> mode, confidence |-> CONFIDENCE_NONE,
     timestamp |-> now]

\* asdict(sig) with the timestamp of the last row.
SignalDict(sig, ts) ==
    [symbol |-> sig.symbol, timeframe |-> sig.timeframe, action |-> sig.action,
     reason |-> sig.reason, mode |-> sig.mode, confidence |-> sig.confidence,
     entry |-> sig.entry, sl |-> sig.sl, tp1 |-> sig.tp1, tp2 |-> sig.tp2,
     tp3 |-> sig.tp3, timestamp |-> ts]

\* asdict(Order(...)) of lines 503-525.
OrderDict(symbol, sig, qty, ts) ==
    [symbol |-> symbol,
     side |-> IF sig.action = "LONG" THEN "BUY" ELSE "SELL",
     qty |-> qty,
     entry |-> sig.entry,
     sl |-> sig.sl,
     tp1 |-> IF sig.tp1 # None THEN sig.tp1 ELSE sig.entry,
     tp2 |-> IF sig.tp2 # None THEN sig.tp2 ELSE sig.entry,
     tp3 |-> IF sig.tp3 # None THEN sig.tp3 ELSE sig.entry,
     risk_perc |-> Frac(RISK_PER_TRADE_NUM, RISK_PER_TRADE_DEN),
     leverage |-> MAX_LEVERAGE,
     created_at |-> ts,
     meta |-> [mode |-> sig.mode, confidence |-> sig.confidence,
               reason |-> sig.reason]]

\* The engine without the test of line 497: an order whatever the quantity.
Trade_no_demotion(symbol, timeframe, df, equity) ==
    LET sig == generate_signal(symbol, timeframe, df)
        decision_dict == SignalDict(sig, df.timestamp)
        qty == _respect_leverage_constraints(
                   equity, sig.entry,
                   _compute_position_size(equity, sig.entry, sig.sl))
    IN  IF sig.action = "NONE" \/ sig.entry = None \/ sig.sl = None
        THEN [decision |-> decision_dict, order |-> <<>>]
        ELSE [decision |-> decision_dict,
              order |-> <<OrderDict(symbol, sig, qty, df.timestamp)>>]

\* The engine demoting without the suffix of line 498.
Trade_plain_demotion(symbol, timeframe, df, equity) ==
    LET sig == generate_signal(symbol, timeframe, df)
        decision_dict == SignalDict(sig, df.timestamp)
        qty == _respect_leverage_constraints(
                   equity, sig.entry,
                   _compute_position_size(equity, sig.entry, sig.sl))
    IN  IF sig.action = "NONE" \/ sig.entry = None \/ sig.sl = None
        THEN [decision |-> decision_dict, order |-> <<>>]
        ELSE IF ~FracPositive(qty)
        THEN [decision |-> [decision_dict EXCEPT !.action = "NONE"],
              order |-> <<>>]
        ELSE [decision |-> decision_dict,
              order |-> <<OrderDict(symbol, sig, qty, df.timestamp)>>]

\* Lines 484-530: the signal, the sizing and the order. A returned order is a
\* sequence: <<>> for None, <<order>> otherwise.
Trade(symbol, timeframe, df, equity) ==
    LET sig == generate_signal(symbol, timeframe, df)
        decision_dict == SignalDict(sig, df.timestamp)
        qty == _respect_leverage_constraints(
                   equity, sig.entry,
                   _compute_position_size(equity, sig.entry, sig.sl))
    IN  IF sig.action = "NONE" \/ sig.entry = None \/ sig.sl = None
        THEN [decision |-> decision_dict, order |-> <<>>]
        ELSE IF ~FracPositive(qty)
        THEN [decision |-> [decision_dict EXCEPT !.reason = @ \o R_QTY_ZERO,
                                                 !.action = "NONE"],
              order |-> <<>>]
        ELSE [decision |-> decision_dict,
              order |-> <<OrderDict(symbol, sig, qty, df.timestamp)>>]

\* Lines 453-530, given the daily PnL in force: what the call returns.
\* ind is the result of compute_indicators, o the float columns.
Returned(symbol, timeframe, ind, o, equity, pnl, now) ==
    IF BreakerTripped(pnl, equity)
    THEN [decision |-> PlainDecision(symbol, timeframe, R_RISK_STOP(pnl),
                                     "RISK_STOP", now),
          order |-> <<>>]
    ELSE IF ~ind.ok
    THEN [decision |-> PlainDecision(symbol, timeframe, R_ERROR(ind.error),
                                     "ERROR", now),
          order |-> <<>>]
    ELSE Trade(symbol, timeframe, WithFloatColumns(ind.df, o), equity)

\* A bounded queue that records every entry twice.
DequeAppend_twice(q, x, maxlen) ==
    LET a == Append(Append(q, x), x)
    IN  IF Len(a) > maxlen THEN SubSeq(a, Len(a) - maxlen + 1, Len(a)) ELSE a

\* A bounded queue that refuses the new entry when full.
DequeAppend_drop_newest(q, x, maxlen) ==
    IF Len(q) + 1 > maxlen THEN q ELSE Append(q, x)

\* deque(maxlen=n).append(x)
DequeAppend(q, x, maxlen) ==
    IF Len(q) + 1 > maxlen THEN Tail(Append(q, x)) ELSE Append(q, x)

-----------------------------------------------------------------------------
(* Inputs *)

Symbols == {"BTCUSDT"}
Timeframes == {"1m"}

\* The candle lists of the model, by descriptor:
\*   empty         the empty list
\*   plain         Series(dir, shape, n)
\*   ts            the same with the key "ts" in place of "timestamp"
\*   reversed      the same, newest candle first
\*   no_timestamp  the same without any time key
\*   no_close      the same without "close"; no_open, no_high, no_low and
\*                 no_volume likewise
CandleInput(form, dir, shape, n) == [form |-> form, dir |-> dir, shape |-> shape, n |-> n]

Candles(d) ==
    CASE d.form = "empty" -> <<>>
      [] d.form = "plain" -> Series(d.dir, d.shape, d.n)
      [] d.form = "ts" -> WithTs(Series(d.dir, d.shape, d.n))
      [] d.form = "reversed" -> Reverse(Series(d.dir, d.shape, d.n))
      [] d.form = "no_timestamp" -> Without(Series(d.dir, d.shape, d.n), "timestamp")
      [] d.form = "no_open" -> Without(Series(d.dir, d.shape, d.n), "open")
      [] d.form = "no_high" -> Without(Series(d.dir, d.shape, d.n), "high")
      [] d.form = "no_low" -> Without(Series(d.dir, d.shape, d.n), "low")
      [] d.form = "no_volume" -> Without(Series(d.dir, d.shape, d.n), "volume")
      [] OTHER -> Without(Series(d.dir, d.shape, d.n), "close")

EmptyCandles == CandleInput("empty", 1, "surge", 0)

\* Every candle list of the model.
AllCandleInputs ==
    {EmptyCandles}
    \cup {CandleInput(f, 1, "surge", MIN_CANDLES_REQUIRED) :
            f \in {"no_timestamp", "no_open", "no_high", "no_low", "no_close",
                   "no_volume"}}
    \cup {CandleInput(f, dir, shape, n) :
            f \in {"plain", "ts", "reversed"}, dir \in {-1, 1}, shape \in Shapes,
            n \in {MIN_CANDLES_REQUIRED - 1, MIN_CANDLES_REQUIRED}}

\* The candle lists the engine is called with in Spec.
CallCandleInputs ==
    {EmptyCandles,
     CandleInput("plain", 1, "overshoot", MIN_CANDLES_REQUIRED - 1),
     CandleInput("plain", 1, "surge", MIN_CANDLES_REQUIRED),
     CandleInput("plain", 1, "overshoot", MIN_CANDLES_REQUIRED),
     CandleInput("plain", -1, "overshoot", MIN_CANDLES_REQUIRED),
     CandleInput("no_close", 1, "surge", MIN_CANDLES_REQUIRED)}

\* compute_indicators of every candle list of the model.
IndicatorsOf == [d \in AllCandleInputs |-> compute_indicators(Candles(d))]

\* Every candle of the list is well formed.
WellFormedInput(d) ==
    \A i \in 1..Len(Candles(d)) : WellFormed(Candles(d)[i])

WellFormedOf == [d \in AllCandleInputs |-> WellFormedInput(d)]

\* Float columns around a last close c (in points): a bullish and a bearish set.
Bullish(c) ==
    [ema20 |-> c - EmaGap, ema50 |-> c - 2 * EmaGap, rsi14 |-> 60,
     macd_hist |-> 1, prev_macd_hist |-> 0, bb_upper |-> c - 1, bb_lower |-> c - 3]

Bearish(c) ==
    [ema20 |-> c + EmaGap, ema50 |-> c + 2 * EmaGap, rsi14 |-> 40,
     macd_hist |-> -1, prev_macd_hist |-> 0, bb_upper |-> c + 3, bb_lower |-> c + 1]

\* The float columns offered for a candle list in Spec.
CallOracles(d) ==
    IF IndicatorsOf[d].ok
    THEN {Bullish(IndicatorsOf[d].df.row.close), Bearish(IndicatorsOf[d].df.row.close)}
    ELSE {Bullish(0)}

Equities == {0, MAX_DAILY_LOSS_DEN * MaxPnl}
PnlArgs == {Omitted, None} \cup (-MaxPnl..MaxPnl)

-----------------------------------------------------------------------------
(* The state outside the sequential engine, at rest *)

Threads == 1..NumThreads

\* state.symbols of the runner, in the order of the dict.
RunnerSymbols == <<"BTCUSDT", "ETHUSDT">>
SymbolSet == {RunnerSymbols[i] : i \in 1..Len(RunnerSymbols)}

\* No call is running in any thread; backoff and last_trade_at are empty
\* defaultdicts (every symbol reads as 0); decision_loop is before its first
\* pass and no kline has been received; BinanceWs.stream is before its first
\* connection, with backoff = 1.0 (in tenths of a second).
\* loop.klines[s]: state.symbols[s].klines is not empty. The other fields of
\* loop record, for each symbol, what its last iteration did (outcome), the
\* passes it has been skipped for its backoff since its last evaluation
\* (skipped), its evaluations failed in a row, up to MaxFails (fails) and
\* the backoff assigned at the last failure (assigned).
OutsideIdle ==
    /\ threads = [t \in Threads |-> [pc |-> "idle"]]
    /\ backoff = [s \in SymbolSet |-> 0]
    /\ last_trade_at = [s \in SymbolSet |-> 0]
    /\ loop = [pc |-> "sleep", i |-> 0, now |-> 0,
               klines |-> [s \in SymbolSet |-> FALSE],
               outcome |-> [s \in SymbolSet |-> "none"],
               skipped |-> [s \in SymbolSet |-> 0],
               fails |-> [s \in SymbolSet |-> 0],
               assigned |-> [s \in SymbolSet |-> 0]]
    /\ stream = [pc |-> "connect", backoff |-> 10, sleep_s |-> 0, frame |-> "none"]

-----------------------------------------------------------------------------
(* The engine *)

\* call before the first evaluation. call.stops is a history variable: the
\* equities for which RISK_STOP was returned on the stored date by a call since
\* which no call was given a daily_pnl figure.
NoCall == [n |-> 0, stops |-> {}]
NoReturn == [decision |-> [action |-> "", mode |-> ""], order |-> <<>>]

Init ==
    /\ OutsideIdle
    /\ DAILY_PNL = 0
    /\ DAILY_DATE = None
    /\ DECISIONS = <<>>
    /\ ORDERS = <<>>
    /\ utcnow = 0
    /\ call = NoCall
    /\ ret = NoReturn
    /\ fin = <<>>
    /\ fout = <<>>

\* One call evaluate_and_maybe_trade(symbol, timeframe, candles, equity[, daily_pnl]):
\* d describes the candles, o gives the float columns of their table, arg is the
\* daily_pnl argument (Omitted, None or a figure).
Evaluate(symbol, timeframe, d, o, equity, arg) ==
    LET st == DailyState(DAILY_DATE, DAILY_PNL, UtcDate(utcnow), BindDailyPnl(arg))
        r == Returned(symbol, timeframe, IndicatorsOf[d], o, equity, st.pnl, utcnow)
    IN  /\ call.n < MaxCalls
        /\ DAILY_DATE' = st.date
        /\ DAILY_PNL' = st.pnl
        /\ DECISIONS' = DequeAppend(DECISIONS, r.decision, DECISIONS_MAXLEN)
        /\ ORDERS' = IF r.order # <<>>
                     THEN DequeAppend(ORDERS, r.order[1], ORDERS_MAXLEN)
                     ELSE ORDERS
        /\ call' = [n |-> call.n + 1, symbol |-> symbol, timeframe |-> timeframe,
                    candles |-> d, oracle |-> o, equity |-> equity,
                    daily_pnl |-> arg, date |-> UtcDate(utcnow),
                    before |-> [DAILY_PNL |-> DAILY_PNL, DAILY_DATE |-> DAILY_DATE,
                                DECISIONS |-> DECISIONS, ORDERS |-> ORDERS],
                    stops |->
                        (IF DAILY_DATE # st.date \/ arg # None THEN {} ELSE call.stops)
                        \cup (IF r.decision.mode = "RISK_STOP" THEN {equity} ELSE {})]
        /\ ret' = r
        /\ UNCHANGED <<utcnow, fin, fout>>
        /\ UNCHANGED outside

EvaluateCall ==
    \E symbol \in Symbols, timeframe \in Timeframes, d \in CallCandleInputs,
       equity \in Equities, arg \in PnlArgs :
        \E o \in CallOracles(d) : Evaluate(symbol, timeframe, d, o, equity, arg)

\* The wall clock advances.
Tick ==
    /\ utcnow < MaxClock
    /\ utcnow' = utcnow + 1
    /\ UNCHANGED <<DAILY_PNL, DAILY_DATE, DECISIONS, ORDERS, call, ret, fin, fout>>
    /\ UNCHANGED outside

Next == EvaluateCall \/ Tick

Spec == Init /\ [][Next]_vars

-----------------------------------------------------------------------------
(* The signal functions on their own: fin is an indicator table, fout what the
   filter gate, the two builders and generate_signal return for it. *)

\* The least ATR that passes the volatility floor for RowClose, and the least
\* EMA distance that passes the direction check.
AtrMin == (3 * RowClose + 999) \div 1000
GapMin == (RowClose + 999) \div 1000

RowTable(len, close, atr, prev_atr, ema20, ema50, vol, vol_ma, hh, ll, rsi, macd, prev_macd, bbu, bbl) ==
    [len |-> len, timestamp |-> len,
     row |-> [close |-> close, volume |-> vol, atr14 |-> atr, hh_20 |-> hh,
              ll_20 |-> ll, vol_ma20 |-> vol_ma, ema20 |-> ema20, ema50 |-> ema50,
              rsi14 |-> rsi, macd_hist |-> macd, bb_upper |-> bbu, bb_lower |-> bbl],
     prev_row |-> [atr14 |-> prev_atr, macd_hist |-> prev_macd]]

\* Tables that exercise every check of the filter gate, alone and together.
FilterTables ==
    {RowTable(MIN_CANDLES_REQUIRED, close, atr, prev_atr, ema20, ema50, vol, vol_ma,
              RowClose - 1, RowClose + 1, 60, 1, 0, RowClose - 1, RowClose + 1) :
        close \in {NaN, 0, RowClose},
        atr \in {NaN, AtrMin - 1, AtrMin, AtrMin + 1},
        prev_atr \in {NaN, AtrMin - 1, AtrMin, AtrMin + 1},
        ema20 \in {NaN, RowClose},
        ema50 \in {NaN, RowClose, RowClose - GapMin + 1, RowClose - GapMin},
        vol \in {NaN, RowVolMa \div 2 - 1, RowVolMa \div 2, 2 * RowVolMa},
        vol_ma \in {NaN, 0, RowVolMa}}

\* Tables around the conditions of the two builders; the volume is 1.2 times
\* the average or twice the average.
SignalTables ==
    {RowTable(len, RowClose, atr, prev_atr, RowClose, RowClose + trend * GapMin,
              vol, RowVolMa, hh, ll, rsi, macd, prev_macd,
              RowClose + bb, RowClose + bb) :
        len \in {MIN_CANDLES_REQUIRED - 1, MIN_CANDLES_REQUIRED},
        atr \in {NaN, 0, AtrMin, AtrMin + 1},
        prev_atr \in {NaN, AtrMin},
        trend \in {-1, 1},
        vol \in {(12 * RowVolMa) \div 10, 2 * RowVolMa},
        hh \in {NaN, RowClose - 1, RowClose, RowClose + 1},
        ll \in {NaN, RowClose - 1, RowClose, RowClose + 1},
        rsi \in {44, 45, 55, 56},
        macd \in {-1, 0, 1},
        prev_macd \in {-2, 0, 2},
        bb \in {-1, 1}}

InitSignal ==
    /\ OutsideIdle
    /\ DAILY_PNL = 0
    /\ DAILY_DATE = None
    /\ DECISIONS = <<>>
    /\ ORDERS = <<>>
    /\ utcnow = 0
    /\ call = NoCall
    /\ ret = NoReturn
    /\ fin \in {[op |-> "_passes_filters", df |-> t] : t \in FilterTables}
               \cup {[op |-> "generate_signal", df |-> t] :
                        t \in SignalTables \cup FilterTables}
    /\ fout = <<>>

\* _passes_filters(df.iloc[-1], df.iloc[-2])
PassesFilters ==
    /\ fin.op = "_passes_filters"
    /\ fout = <<>>
    /\ fout' = <<_passes_filters(fin.df.row, fin.df.prev_row)>>
    /\ UNCHANGED <<DAILY_PNL, DAILY_DATE, DECISIONS, ORDERS, utcnow, call, ret, fin>>
    /\ UNCHANGED outside

\* generate_signal(symbol, timeframe, df), with what each builder returns.
GenerateSignal ==
    /\ fin.op = "generate_signal"
    /\ fout = <<>>
    /\ \E symbol \in Symbols, timeframe \in Timeframes :
          fout' = <<[signal |-> generate_signal(symbol, timeframe, fin.df),
                     long |-> _build_long_signal(symbol, timeframe, fin.df),
                     short |-> _build_short_signal(symbol, timeframe, fin.df)]>>
    /\ UNCHANGED <<DAILY_PNL, DAILY_DATE, DECISIONS, ORDERS, utcnow, call, ret, fin>>
    /\ UNCHANGED outside

NextSignal == PassesFilters \/ GenerateSignal

SpecSignal == InitSignal /\ [][NextSignal]_vars

-----------------------------------------------------------------------------
(* The sizing functions on their own: fin holds the arguments, fout the
   returned quantity. Prices are in half points, LevelsPerTick to the tick. *)

SizingEquities == {-1000, 0, 1000, 10000}
SizingPrices == {LevelsPerTick * p : p \in {-100, 0, 98, 99, 100, 102}}
SizingQuantities == {Frac(n, d) : n \in {-1, 0, 1, 50, 200, 201, 1000}, d \in {1, 3}}

InitSizing ==
    /\ OutsideIdle
    /\ DAILY_PNL = 0
    /\ DAILY_DATE = None
    /\ DECISIONS = <<>>
    /\ ORDERS = <<>>
    /\ utcnow = 0
    /\ call = NoCall
    /\ ret = NoReturn
    /\ fin \in {[op |-> "_compute_position_size", equity |-> e, entry |-> p, sl |-> q] :
                   e \in SizingEquities, p \in SizingPrices, q \in SizingPrices}
               \cup {[op |-> "_respect_leverage_constraints", equity |-> e,
                      entry |-> p, qty |-> q] :
                       e \in SizingEquities, p \in SizingPrices, q \in SizingQuantities}
    /\ fout = <<>>

ComputePositionSize ==
    /\ fin.op = "_compute_position_size"
    /\ fout = <<>>
    /\ fout' = <<_compute_position_size(fin.equity, fin.entry, fin.sl)>>
    /\ UNCHANGED <<DAILY_PNL, DAILY_DATE, DECISIONS, ORDERS, utcnow, call, ret, fin>>
    /\ UNCHANGED outside

RespectLeverageConstraints ==
    /\ fin.op = "_respect_leverage_constraints"
    /\ fout = <<>>
    /\ fout' = <<_respect_leverage_constraints(fin.equity, fin.entry, fin.qty)>>
    /\ UNCHANGED <<DAILY_PNL, DAILY_DATE, DECISIONS, ORDERS, utcnow, call, ret, fin>>
    /\ UNCHANGED outside

NextSizing == ComputePositionSize \/ RespectLeverageConstraints

SpecSizing == InitSizing /\ [][NextSizing]_vars

-----------------------------------------------------------------------------
(* The histories and their accessors: the engine started with histories that
   earlier evaluations left empty or one entry short of their capacity, and
   the read accessors called between evaluations, all within one reading of
   the clock. fout holds what the last accessor call returned, and after how
   many evaluations it was made. *)

\* list(q)[-limit:] for limit > 0.
LastEntries(q, limit) ==
    IF limit >= Len(q) THEN q ELSE SubSeq(q, Len(q) - limit + 1, Len(q))

\* date.isoformat() of day d of the model's calendar (day 0 is 1970-01-01).
IsoFormat(d) ==
    IF d < 0 THEN "1969-12-31"
    ELSE "1970-01-" \o (IF d + 1 < 10 THEN "0" ELSE "") \o ToString(d + 1)

get_last_decision == IF DECISIONS = <<>> THEN None ELSE DECISIONS[Len(DECISIONS)]

\* The accessor returning the oldest entries.
get_recent_decisions_oldest(limit) ==
    IF limit <= 0 THEN <<>>
    ELSE IF limit >= Len(DECISIONS) THEN DECISIONS ELSE SubSeq(DECISIONS, 1, limit)

get_recent_decisions(limit) ==
    IF limit <= 0 THEN <<>> ELSE LastEntries(DECISIONS, limit)

get_recent_orders(limit) ==
    IF limit <= 0 THEN <<>> ELSE LastEntries(ORDERS, limit)

get_pnl_stats ==
    [daily_pnl |-> DAILY_PNL,
     daily_date |-> IF DAILY_DATE # None THEN IsoFormat(DAILY_DATE) ELSE None,
     info |-> "PnL conseille de le calculer cote execution engine."]

\* The candle lists, float columns and figures of the calls on the histories.
HistoryCalls ==
    {[d |-> EmptyCandles, o |-> Bullish(0)]}
    \cup {[d |-> CandleInput("plain", 1, "overshoot", MIN_CANDLES_REQUIRED),
           o |-> Bullish(IndicatorsOf[CandleInput("plain", 1, "overshoot",
                                                  MIN_CANDLES_REQUIRED)].df.row.close)],
          [d |-> CandleInput("plain", -1, "overshoot", MIN_CANDLES_REQUIRED),
           o |-> Bearish(IndicatorsOf[CandleInput("plain", -1, "overshoot",
                                                  MIN_CANDLES_REQUIRED)].df.row.close)]}
HistoryPnlArgs == {Omitted, MaxPnl}
Limits == {-1, 0, 2, DECISIONS_MAXLEN, ORDERS_MAXLEN + 1}

\* The i-th decision and the i-th order of an earlier day: evaluations of the
\* empty list at clock reading i - DECISIONS_MAXLEN, and orders of the rising
\* list with equity i.
EarlierDecision(i) ==
    PlainDecision("BTCUSDT", "1m", R_ERROR(IndicatorsOf[EmptyCandles].error),
                  "ERROR", i - DECISIONS_MAXLEN)
EarlierOrderOf(up, i) ==
    Trade("BTCUSDT", "1m", WithFloatColumns(IndicatorsOf[up].df,
                                            Bullish(IndicatorsOf[up].df.row.close)),
          i).order[1]
EarlierOrder(i) ==
    EarlierOrderOf(CandleInput("plain", 1, "overshoot", MIN_CANDLES_REQUIRED), i)

InitHistory ==
    /\ OutsideIdle
    /\ DAILY_PNL = 0
    /\ \/ /\ DAILY_DATE = None
          /\ DECISIONS = <<>>
          /\ ORDERS = <<>>
       \/ /\ DAILY_DATE = -1
          /\ DECISIONS = [i \in 1..(DECISIONS_MAXLEN - 1) |-> EarlierDecision(i)]
          /\ ORDERS = [i \in 1..(ORDERS_MAXLEN - 1) |-> EarlierOrder(i)]
    /\ utcnow = 0
    /\ call = NoCall
    /\ ret = NoReturn
    /\ fin = <<>>
    /\ fout = <<>>

EvaluateHistory ==
    \E c \in HistoryCalls, arg \in HistoryPnlArgs :
        Evaluate("BTCUSDT", "1m", c.d, c.o, MAX_DAILY_LOSS_DEN * MaxPnl, arg)

Accessed(op, limit, result) ==
    /\ fout' = <<[op |-> op, limit |-> limit, result |-> result, at |-> call.n]>>
    /\ UNCHANGED <<DAILY_PNL, DAILY_DATE, DECISIONS, ORDERS, utcnow, call, ret, fin>>
    /\ UNCHANGED outside

GetLastDecision == Accessed("get_last_decision", None, get_last_decision)

GetRecentDecisions ==
    \E limit \in Limits : Accessed("get_recent_decisions", limit, get_recent_decisions(limit))

GetRecentOrders ==
    \E limit \in Limits : Accessed("get_recent_orders", limit, get_recent_orders(limit))

GetPnlStats == Accessed("get_pnl_stats", None, get_pnl_stats)

NextHistory ==
    \/ EvaluateHistory
    \/ GetLastDecision
    \/ GetRecentDecisions
    \/ GetRecentOrders
    \/ GetPnlStats

SpecHistory == InitHistory /\ [][NextHistory]_vars

-----------------------------------------------------------------------------
(* evaluate_and_maybe_trade called from several threads (the endpoints of
   main.py are plain functions, which the server runs in a thread pool): the
   call of lines 442-530 taken apart at each read and write of DAILY_DATE and
   DAILY_PNL, with no lock around them. threads[t] holds the arguments and
   locals of the call of thread t; seen is the DAILY_PNL its breaker test read,
   reset whether it ran line 446. *)

ThreadStep(t, rec) ==
    /\ threads' = [threads EXCEPT ![t] = rec]
    /\ UNCHANGED <<utcnow, call, ret, fin, fout, backoff, last_trade_at, loop, stream>>

\* Line 426: the call is made.
ThreadCall(t) ==
    /\ threads[t].pc = "idle"
    /\ \E d \in {EmptyCandles,
                CandleInput("plain", 1, "overshoot", MIN_CANDLES_REQUIRED)},
          arg \in {None, -MaxPnl, MaxPnl} :
          ThreadStep(t, [pc |-> "read_clock", symbol |-> "BTCUSDT", timeframe |-> "1m",
                         candles |-> d, equity |-> MAX_DAILY_LOSS_DEN * MaxPnl,
                         daily_pnl |-> arg, now_date |-> None, seen |-> None,
                         reset |-> FALSE, ret |-> NoReturn])
    /\ UNCHANGED <<DAILY_PNL, DAILY_DATE, DECISIONS, ORDERS>>

\* Line 443: now_date = datetime.utcnow().date()
ThreadReadClock(t) ==
    /\ threads[t].pc = "read_clock"
    /\ ThreadStep(t, [threads[t] EXCEPT !.pc = "test_date", !.now_date = UtcDate(utcnow)])
    /\ UNCHANGED <<DAILY_PNL, DAILY_DATE, DECISIONS, ORDERS>>

\* Line 444: if DAILY_DATE is None or DAILY_DATE != now_date
ThreadTestDate(t) ==
    /\ threads[t].pc = "test_date"
    /\ ThreadStep(t, [threads[t] EXCEPT
                        !.pc = IF DAILY_DATE = None \/ DAILY_DATE # threads[t].now_date
                               THEN "set_date" ELSE "override"])
    /\ UNCHANGED <<DAILY_PNL, DAILY_DATE, DECISIONS, ORDERS>>

\* Line 445: DAILY_DATE = now_date
ThreadSetDate(t) ==
    /\ threads[t].pc = "set_date"
    /\ DAILY_DATE' = threads[t].now_date
    /\ ThreadStep(t, [threads[t] EXCEPT !.pc = "reset_pnl"])
    /\ UNCHANGED <<DAILY_PNL, DECISIONS, ORDERS>>

\* Line 446: DAILY_PNL = 0.0
ThreadResetPnl(t) ==
    /\ threads[t].pc = "reset_pnl"
    /\ DAILY_PNL' = 0
    /\ ThreadStep(t, [threads[t] EXCEPT !.pc = "override", !.reset = TRUE])
    /\ UNCHANGED <<DAILY_DATE, DECISIONS, ORDERS>>

\* Lines 449-450: if daily_pnl is not None: DAILY_PNL = daily_pnl
ThreadOverride(t) ==
    /\ threads[t].pc = "override"
    /\ DAILY_PNL' = IF threads[t].daily_pnl # None THEN threads[t].daily_pnl ELSE DAILY_PNL
    /\ ThreadStep(t, [threads[t] EXCEPT !.pc = "breaker"])
    /\ UNCHANGED <<DAILY_DATE, DECISIONS, ORDERS>>

\* Line 454: if DAILY_PNL <= -MAX_DAILY_LOSS * equity
ThreadBreaker(t) ==
    /\ threads[t].pc = "breaker"
    /\ ThreadStep(t, [threads[t] EXCEPT
                        !.seen = DAILY_PNL,
                        !.pc = IF BreakerTripped(DAILY_PNL, threads[t].equity)
                               THEN "risk_stop" ELSE "evaluate"])
    /\ UNCHANGED <<DAILY_PNL, DAILY_DATE, DECISIONS, ORDERS>>

\* Lines 455-464: the RISK_STOP decision, whose reason reads DAILY_PNL again.
ThreadRiskStop(t) ==
    LET decision == PlainDecision(threads[t].symbol, threads[t].timeframe,
                                  R_RISK_STOP(DAILY_PNL), "RISK_STOP", utcnow)
    IN  /\ threads[t].pc = "risk_stop"
        /\ DECISIONS' = DequeAppend(DECISIONS, decision, DECISIONS_MAXLEN)
        /\ ThreadStep(t, [threads[t] EXCEPT
                            !.pc = "done",
                            !.ret = [decision |-> decision, order |-> <<>>]])
        /\ UNCHANGED <<DAILY_PNL, DAILY_DATE, ORDERS>>

\* Lines 467-530: the indicators, the signal, the sizing and the recording.
ThreadEvaluate(t) ==
    LET d == threads[t].candles
        o == IF IndicatorsOf[d].ok THEN Bullish(IndicatorsOf[d].df.row.close)
                                   ELSE Bullish(0)
        r == Returned(threads[t].symbol, threads[t].timeframe, IndicatorsOf[d], o,
                      threads[t].equity, threads[t].seen, utcnow)
    IN  /\ threads[t].pc = "evaluate"
        /\ DECISIONS' = DequeAppend(DECISIONS, r.decision, DECISIONS_MAXLEN)
        /\ ORDERS' = IF r.order # <<>>
                     THEN DequeAppend(ORDERS, r.order[1], ORDERS_MAXLEN)
                     ELSE ORDERS
        /\ ThreadStep(t, [threads[t] EXCEPT !.pc = "done", !.ret = r])
        /\ UNCHANGED <<DAILY_PNL, DAILY_DATE>>

NextConcurrent ==
    \/ \E t \in Threads : ThreadCall(t)
    \/ \E t \in Threads : ThreadReadClock(t)
    \/ \E t \in Threads : ThreadTestDate(t)
    \/ \E t \in Threads : ThreadSetDate(t)
    \/ \E t \in Threads : ThreadResetPnl(t)
    \/ \E t \in Threads : ThreadOverride(t)
    \/ \E t \in Threads : ThreadBreaker(t)
    \/ \E t \in Threads : ThreadRiskStop(t)
    \/ \E t \in Threads : ThreadEvaluate(t)
    \/ Tick

SpecConcurrent == Init /\ [][NextConcurrent]_vars

-----------------------------------------------------------------------------
(* The engine called with candle lists that compute_indicators rejects (and
   with one it accepts, so that there are orders in the history). *)

RejectedCandleInputs ==
    {EmptyCandles}
    \cup {CandleInput(f, 1, "surge", MIN_CANDLES_REQUIRED) :
            f \in {"no_timestamp", "no_open", "no_high", "no_low", "no_close",
                   "no_volume"}}

EvaluateRejected ==
    \E d \in RejectedCandleInputs
             \cup {CandleInput("plain", 1, "overshoot", MIN_CANDLES_REQUIRED)},
       equity \in Equities, arg \in PnlArgs :
        Evaluate("BTCUSDT", "1m", d,
                 IF IndicatorsOf[d].ok THEN Bullish(IndicatorsOf[d].df.row.close)
                                       ELSE Bullish(0),
                 equity, arg)

NextErrors == EvaluateRejected \/ Tick

SpecErrors == Init /\ [][NextErrors]_vars

-----------------------------------------------------------------------------
(* decision_loop of auto_runner.py: one action per iteration of its for loop.
   The names the file does not import (asyncio, time, CFG, GlobalState and
   the awaited evaluate_and_maybe_trade(state, st, balance_usdt)) are taken as
   bound by the module the file is to be completed into; the awaited
   evaluation either returns a dict, with or without an order, or raises. *)

\* Line 34: min(60, max(5, backoff[s]*2 or 5))
Escalate(b) == Min2(60, Max2(5, IF b * 2 # 0 THEN b * 2 ELSE 5))

\* One backoff shared by all the symbols.
Failed_global(b, s) == [u \in DOMAIN b |-> Escalate(b[s])]

\* Line 34: backoff[s] = ...
Failed(b, s) == [b EXCEPT ![s] = Escalate(b[s])]

\* The backoff cleared at the first skipped pass.
Decayed_cleared(b, s) == [b EXCEPT ![s] = 0]

\* Line 16: backoff[s] -= 1
Decayed(b, s) == [b EXCEPT ![s] = b[s] - 1]

\* The symbol of the current iteration.
LoopSymbol == RunnerSymbols[loop.i]

\* The end of one iteration on symbol s with the record rec: the next symbol
\* of the pass, or the sleep before the next pass.
LoopIteration(s, rec) ==
    /\ loop' = [rec EXCEPT
                  !.pc = IF loop.i < Len(RunnerSymbols) THEN "symbols" ELSE "sleep",
                  !.i = IF loop.i < Len(RunnerSymbols) THEN loop.i + 1 ELSE 0]
    /\ UNCHANGED <<DAILY_PNL, DAILY_DATE, DECISIONS, ORDERS, utcnow, call, ret, fin,
                   fout, threads, stream>>

\* Lines 8-10: await asyncio.sleep(1.5); now = time.time(); the pass begins.
LoopSleep ==
    /\ loop.pc = "sleep"
    /\ loop' = [loop EXCEPT !.pc = "symbols", !.i = 1, !.now = utcnow]
    /\ UNCHANGED <<DAILY_PNL, DAILY_DATE, DECISIONS, ORDERS, utcnow, call, ret, fin,
                   fout, threads, stream, backoff, last_trade_at>>

\* Lines 11-12: if not st.klines: continue
LoopNoKlines ==
    /\ loop.pc = "symbols"
    /\ ~loop.klines[LoopSymbol]
    /\ LoopIteration(LoopSymbol, [loop EXCEPT !.outcome[LoopSymbol] = "no_klines"])
    /\ UNCHANGED <<backoff, last_trade_at>>

\* Lines 15-17: if backoff[s] > 0: backoff[s] -= 1; continue
LoopBackoff ==
    /\ loop.pc = "symbols"
    /\ loop.klines[LoopSymbol]
    /\ backoff[LoopSymbol] > 0
    /\ backoff' = Decayed(backoff, LoopSymbol)
    /\ LoopIteration(LoopSymbol, [loop EXCEPT !.outcome[LoopSymbol] = "backoff",
                                              !.skipped[LoopSymbol] = @ + 1])
    /\ UNCHANGED last_trade_at

\* Lines 19-30: the evaluation returns; an order sets last_trade_at[s] = now.
LoopEvaluateReturns ==
    /\ loop.pc = "symbols"
    /\ loop.klines[LoopSymbol]
    /\ ~(backoff[LoopSymbol] > 0)
    /\ \E order \in BOOLEAN :
          /\ last_trade_at' = IF order
                              THEN [last_trade_at EXCEPT ![LoopSymbol] = loop.now]
                              ELSE last_trade_at
          /\ LoopIteration(LoopSymbol,
                           [loop EXCEPT !.outcome[LoopSymbol] = IF order THEN "order" ELSE "ok",
                                        !.skipped[LoopSymbol] = 0,
                                        !.fails[LoopSymbol] = 0])
    /\ UNCHANGED backoff

\* Lines 19-22 and 32-34: the evaluation raises.
LoopEvaluateFails ==
    /\ loop.pc = "symbols"
    /\ loop.klines[LoopSymbol]
    /\ ~(backoff[LoopSymbol] > 0)
    /\ backoff' = Failed(backoff, LoopSymbol)
    /\ LoopIteration(LoopSymbol,
                     [loop EXCEPT !.outcome[LoopSymbol] = "failed",
                                  !.skipped[LoopSymbol] = 0,
                                  !.fails[LoopSymbol] = Min2(@ + 1, MaxFails),
                                  !.assigned[LoopSymbol] = Failed(backoff, LoopSymbol)[LoopSymbol]])
    /\ UNCHANGED last_trade_at

\* run_market_stream appends the first kline of a symbol (a deque that is
\* appended to never becomes empty again).
KlineArrives ==
    \E s \in SymbolSet :
        /\ ~loop.klines[s]
        /\ loop' = [loop EXCEPT !.klines[s] = TRUE]
        /\ UNCHANGED <<DAILY_PNL, DAILY_DATE, DECISIONS, ORDERS, utcnow, call, ret,
                       fin, fout, threads, stream, backoff, last_trade_at>>

LoopNext ==
    \/ LoopSleep
    \/ LoopNoKlines
    \/ LoopBackoff
    \/ LoopEvaluateReturns
    \/ LoopEvaluateFails

NextRunner == LoopNext \/ KlineArrives \/ Tick

SpecRunner == Init /\ [][NextRunner]_vars

\* The event loop keeps running the task, and the awaited sleep and evaluation
\* come back.
SpecRunnerFair == SpecRunner /\ WF_vars(LoopNext)

-----------------------------------------------------------------------------
(* BinanceWs.stream *)

\* Durations are in tenths of a second. random.random() is in [0, 1): r is one
\* of its values to one decimal, 0 .. 9.
\* sleep_s = min(30.0, backoff * (1.5 + random.random()))
sleep_for_uncapped(b, r) == (b * (15 + r)) \div 10
sleep_for(b, r) == Min2(300, (b * (15 + r)) \div 10)

\* websockets.connect succeeds: backoff is reset and the receive loop starts.
StreamConnects ==
    /\ stream.pc = "connect"
    /\ stream' = [stream EXCEPT !.pc = "connected", !.backoff = 10, !.frame = "none"]
    /\ UNCHANGED <<DAILY_PNL, DAILY_DATE, DECISIONS, ORDERS, utcnow, call, ret,
                   fin, fout, threads, backoff, last_trade_at, loop>>

\* A frame is received: it is yielded, or skipped when it is not JSON.
StreamReceives ==
    /\ stream.pc = "connected"
    /\ \E f \in {"yielded", "skipped"} : stream' = [stream EXCEPT !.frame = f]
    /\ UNCHANGED <<DAILY_PNL, DAILY_DATE, DECISIONS, ORDERS, utcnow, call, ret,
                   fin, fout, threads, backoff, last_trade_at, loop>>

\* websockets.connect or ws.recv raises (ConnectionClosed, InvalidStatusCode
\* or any other Exception): the exception is logged and sleep_s is drawn.
StreamFails ==
    /\ stream.pc \in {"connect", "connected"}
    /\ \E r \in 0 .. 9 :
          stream' = [stream EXCEPT !.pc = "sleep",
                                   !.sleep_s = sleep_for(stream.backoff, r)]
    /\ UNCHANGED <<DAILY_PNL, DAILY_DATE, DECISIONS, ORDERS, utcnow, call, ret,
                   fin, fout, threads, backoff, last_trade_at, loop>>

\* asyncio.sleep(sleep_s) returns, backoff = min(30.0, backoff * 2), and the
\* loop goes back to websockets.connect.
StreamSlept ==
    /\ stream.pc = "sleep"
    /\ stream' = [stream EXCEPT !.pc = "connect", !.backoff = Min2(300, stream.backoff * 2)]
    /\ UNCHANGED <<DAILY_PNL, DAILY_DATE, DECISIONS, ORDERS, utcnow, call, ret,
                   fin, fout, threads, backoff, last_trade_at, loop>>

\* asyncio.sleep of a finite duration returns.
SpecStream ==
    /\ Init
    /\ [][StreamConnects \/ StreamReceives \/ StreamFails \/ StreamSlept]_vars
    /\ WF_vars(StreamSlept)

-----------------------------------------------------------------------------
(* risk_manager.can_open_position: fin holds the arguments, fout the returned
   pair. daily_pnl and the cap are in hundredths. *)

MAX_POSITIONS == 1     \* CFG.MAX_POSITIONS, its default
DAILY_LOSS_CAP == 3    \* CFG.DAILY_LOSS_CAP = 0.03, its default

\* state.symbols is a dict: the sequence below is its values in insertion
\* order, and next(iter(state.symbols)) is the key of the first.
hit_daily_cap(state) == state.symbols[1].daily_pnl <= -DAILY_LOSS_CAP

\* The gate that tests the daily loss of the symbol asked about.
can_open_position_own_pnl(state, st, now) ==
    IF st.daily_pnl <= -DAILY_LOSS_CAP THEN <<FALSE, "daily loss cap">>
    ELSE IF st.open_positions >= MAX_POSITIONS THEN <<FALSE, "max positions reached">>
    ELSE <<TRUE, "">>

can_open_position(state, st, now) ==
    IF hit_daily_cap(state) THEN <<FALSE, "daily loss cap">>
    ELSE IF st.open_positions >= MAX_POSITIONS THEN <<FALSE, "max positions reached">>
    ELSE <<TRUE, "">>

\* The GlobalState of two symbols, each with a daily_pnl around the cap and
\* a number of open positions around the limit; st is one of its SymbolStates.
InitRisk ==
    /\ OutsideIdle
    /\ DAILY_PNL = 0
    /\ DAILY_DATE = None
    /\ DECISIONS = <<>>
    /\ ORDERS = <<>>
    /\ utcnow = 0
    /\ call = NoCall
    /\ ret = NoReturn
    /\ fin \in {[op |-> "can_open_position",
                 state |-> [symbols |->
                     <<[symbol |-> RunnerSymbols[1], daily_pnl |-> p1, open_positions |-> n1],
                       [symbol |-> RunnerSymbols[2], daily_pnl |-> p2, open_positions |-> n2]>>],
                 st |-> i, now |-> 0] :
                    p1 \in {-DAILY_LOSS_CAP - 1, -DAILY_LOSS_CAP, -DAILY_LOSS_CAP + 1, 0},
                    p2 \in {-DAILY_LOSS_CAP - 1, -DAILY_LOSS_CAP, -DAILY_LOSS_CAP + 1, 0},
                    n1 \in {0, MAX_POSITIONS, MAX_POSITIONS + 1},
                    n2 \in {0, MAX_POSITIONS, MAX_POSITIONS + 1},
                    i \in {1, 2}}
    /\ fout = <<>>

\* can_open_position(state, st, now)
CanOpenPosition ==
    /\ fin.op = "can_open_position"
    /\ fout = <<>>
    /\ fout' = <<can_open_position(fin.state, fin.state.symbols[fin.st], fin.now)>>
    /\ UNCHANGED <<DAILY_PNL, DAILY_DATE, DECISIONS, ORDERS, utcnow, call, ret, fin>>
    /\ UNCHANGED outside

SpecRisk == InitRisk /\ [][CanOpenPosition]_vars

-----------------------------------------------------------------------------
(* Claims on the daily-loss breaker *)

Called == call.n > 0

\* C1: whenever the daily PnL in force for a call is <= -MAX_DAILY_LOSS * equity
\* (inclusive), the call returns action NONE, mode RISK_STOP, confidence 0.0 and
\* no order, appends that decision to the decision history and nothing to the
\* order history, whatever the candles are.
C1_BreakerShortCircuits ==
    (Called /\ MAX_DAILY_LOSS_DEN * DAILY_PNL <= -(MAX_DAILY_LOSS_NUM * call.equity))
    => /\ ret.decision.action = "NONE"
       /\ ret.decision.mode = "RISK_STOP"
       /\ ret.decision.confidence = 0
       /\ ret.order = <<>>
       /\ DECISIONS = Append(call.before.DECISIONS, ret.decision)
       /\ ORDERS = call.before.ORDERS

\* C1 witness: the breaker trips exactly on the threshold, on an empty candle
\* list, with a non-empty history before the call.
C1_Witness ==
    /\ Called
    /\ call.equity > 0
    /\ MAX_DAILY_LOSS_DEN * DAILY_PNL = -(MAX_DAILY_LOSS_NUM * call.equity)
    /\ call.candles = EmptyCandles
    /\ call.before.DECISIONS # <<>>
    /\ ret.decision.mode = "RISK_STOP"

\* C2 as claimed: once RISK_STOP was returned on day D, the next evaluation on
\* day D with the same equity returns RISK_STOP and no order, whatever its
\* daily_pnl argument.
C2_StopPersistsAnyCall ==
    [][(/\ Called
        /\ ret.decision.mode = "RISK_STOP"
        /\ call'.n = call.n + 1
        /\ call'.date = call.date
        /\ call'.equity = call.equity)
       => (ret'.decision.mode = "RISK_STOP" /\ ret'.order = <<>>)]_vars

\* C2 amended: once RISK_STOP was returned on day D for an equity, every later
\* evaluation on day D with that equity returns RISK_STOP and no order as long
\* as no call since (itself included) was given a daily_pnl figure, that is as
\* long as they all pass daily_pnl = None.
C2_StopPersistsWithoutFigure ==
    [][(/\ call'.n = call.n + 1
        /\ call'.daily_pnl = None
        /\ call'.date = DAILY_DATE
        /\ call'.equity \in call.stops)
       => (ret'.decision.mode = "RISK_STOP" /\ ret'.order = <<>>)]_vars

\* C2 witness: a call given the figure -MaxPnl is stopped, and the next call of
\* that day, given None and candles that trade on a clean day, is stopped too.
C2_Witness ==
    /\ call.n = 2
    /\ call.daily_pnl = None
    /\ call.before.DAILY_DATE = call.date
    /\ call.equity > 0
    /\ call.equity \in call.stops
    /\ call.candles = CandleInput("plain", 1, "overshoot", MIN_CANDLES_REQUIRED)
    /\ call.oracle.macd_hist > 0
    /\ DECISIONS[1].mode = "RISK_STOP"
    /\ ret.decision.mode = "RISK_STOP"
    /\ ret.order = <<>>

\* C3: the rollover runs before the override: after a call DAILY_DATE is the
\* current date, DAILY_PNL is the supplied figure when one was supplied, and it
\* is 0 on a new date when none was.
C3_RolloverThenOverride ==
    Called =>
        /\ DAILY_DATE = call.date
        /\ call.daily_pnl \notin {None, Omitted} => DAILY_PNL = call.daily_pnl
        /\ (call.daily_pnl \in {None, Omitted} /\ call.before.DAILY_DATE # call.date)
           => DAILY_PNL = 0

\* C3 witness: a call on the day after a day that ended with a non-zero
\* DAILY_PNL, given another non-zero figure.
C3_Witness ==
    /\ Called
    /\ call.before.DAILY_DATE # None
    /\ call.before.DAILY_DATE # call.date
    /\ call.before.DAILY_PNL # 0
    /\ call.daily_pnl \notin {None, Omitted, 0, call.before.DAILY_PNL}
    /\ DAILY_PNL = call.daily_pnl
    /\ DAILY_DATE = call.date

\* C4: a call without a daily_pnl argument, on the stored date, leaves the
\* stored DAILY_PNL unchanged.
C4_NoArgumentKeepsDailyPnl ==
    (Called /\ call.daily_pnl = Omitted /\ call.before.DAILY_DATE = call.date)
    => DAILY_PNL = call.before.DAILY_PNL

-----------------------------------------------------------------------------
(* Claims on the decisions of evaluate_and_maybe_trade *)

\* The rising series of the end-to-end sentence: MIN_CANDLES_REQUIRED well-formed
\* candles, closes rising, the last candle with the widest range and a volume
\* surge.
RisingSeries == CandleInput("plain", 1, "surge", MIN_CANDLES_REQUIRED)

\* C5: the rising well-formed series, with RSI above 55 and a rising positive
\* MACD histogram, evaluated with equity > 0 and a daily PnL of 0, gives action
\* LONG and an order with side BUY and qty > 0.
C5_RisingSeriesGoesLong ==
    (/\ Called
     /\ call.candles = RisingSeries
     /\ WellFormedOf[call.candles]
     /\ call.oracle.rsi14 > 55
     /\ call.oracle.macd_hist > 0
     /\ call.oracle.macd_hist >= call.oracle.prev_macd_hist
     /\ call.equity > 0
     /\ call.daily_pnl = 0)
    => /\ ret.decision.action = "LONG"
       /\ ret.order # <<>>
       /\ ret.order[1].side = "BUY"
       /\ FracPositive(ret.order[1].qty)

\* C5, the other way round: no evaluation of a list of well-formed candles
\* returns LONG or SHORT, since hh_20 and ll_20 take in the high and the low
\* of the latest row.
C5_WellFormedNeverTrades ==
    (Called /\ WellFormedOf[call.candles])
    => (ret.decision.action = "NONE" /\ ret.order = <<>>)

Levels == {"entry", "sl", "tp1", "tp2", "tp3"}

\* The decision carries a value for some level, for every level.
CarriesSomeLevel(d) == \E k \in Levels : k \in DOMAIN d /\ d[k] # None
CarriesAllLevels(d) == \A k \in Levels : k \in DOMAIN d /\ d[k] # None

\* C7: every decision returned and stored carries entry, sl, tp1, tp2 and tp3
\* if and only if its action is LONG or SHORT; a decision with action NONE,
\* demoted ones included, carries no level.
C7_LevelsIffTrade ==
    \A i \in 1..Len(DECISIONS) :
        /\ DECISIONS[i].action \in {"LONG", "SHORT"} => CarriesAllLevels(DECISIONS[i])
        /\ DECISIONS[i].action = "NONE" => ~CarriesSomeLevel(DECISIONS[i])

\* C8: every returned decision has confidence 0.8 when its action is LONG or
\* SHORT and 0.0 when it is NONE, in every mode and after a demotion.
C8_ConfidenceByAction ==
    Called =>
        ret.decision.confidence =
            IF ret.decision.action \in {"LONG", "SHORT"}
            THEN CONFIDENCE_CONFIRMED ELSE CONFIDENCE_NONE

-----------------------------------------------------------------------------
(* Claims on the signal functions *)

Generated == fin # <<>> /\ fin.op = "generate_signal" /\ fout # <<>>
Filtered == fin # <<>> /\ fin.op = "_passes_filters" /\ fout # <<>>

LongOrdered(sig) ==
    sig.sl < sig.entry /\ sig.entry < sig.tp1 /\ sig.tp1 < sig.tp2 /\ sig.tp2 < sig.tp3

ShortOrdered(sig) ==
    sig.tp3 < sig.tp2 /\ sig.tp2 < sig.tp1 /\ sig.tp1 < sig.entry /\ sig.entry < sig.sl

\* C6: every signal generate_signal returns with action LONG has
\* sl < entry < tp1 < tp2 < tp3, and every one with action SHORT has
\* tp3 < tp2 < tp1 < entry < sl, whatever the indicators are.
C6_LevelsOrdered ==
    Generated =>
        /\ fout[1].signal.action = "LONG" => LongOrdered(fout[1].signal)
        /\ fout[1].signal.action = "SHORT" => ShortOrdered(fout[1].signal)
        /\ fout[1].signal.action \in {"LONG", "SHORT"} => fin.df.row.atr14 > 0

\* C6 witness: a LONG at the least ATR the gate lets through, with no ATR on
\* the row before.
C6_Witness ==
    /\ Generated
    /\ fout[1].signal.action = "LONG"
    /\ fin.df.row.atr14 = AtrMin
    /\ isna(fin.df.prev_row.atr14)
    /\ LongOrdered(fout[1].signal)

\* The seven checks of the gate, in the documented order: check k fails.
FilterFails(row, prev_row) ==
    <<isna(row.atr14) \/ (~isna(row.close) /\ row.close <= 0),
      ~isna(row.close) /\ 1000 * row.atr14 < 3 * row.close,
      isna(row.ema20) \/ isna(row.ema50),
      ~isna(row.close) /\ 1000 * Abs(row.ema20 - row.ema50) < row.close,
      isna(row.vol_ma20) \/ row.vol_ma20 = 0,
      ~isna(row.volume) /\ 2 * row.volume < row.vol_ma20,
      ~isna(prev_row.atr14) /\ row.atr14 <= prev_row.atr14>>

FilterReasons ==
    <<R_ATR_NAN, R_LOW_VOLATILITY, R_EMA_NAN, R_NO_DIRECTION, R_VOL_MA,
      R_LOW_VOLUME, R_ATR_FLAT>>

\* C9: _passes_filters returns (False, reason of the first check that fails, in
\* the order 1..7) and (True, "") exactly when no check fails; the seven
\* reasons are pairwise distinct and none is empty.
C9_FirstFailingCheck ==
    Filtered =>
        LET fails == FilterFails(fin.df.row, fin.df.prev_row)
            failing == {k \in 1..7 : fails[k]}
        IN  /\ fout[1].ok <=> failing = {}
            /\ failing = {} => fout[1].reason = ""
            /\ failing # {} => fout[1].reason = FilterReasons[SetMin(failing)]
            /\ \A j, k \in 1..7 : j # k => FilterReasons[j] # FilterReasons[k]
            /\ \A k \in 1..7 : FilterReasons[k] # ""

\* C9 witness: the volume checks and the expansion check fail together with
\* the direction check, and the reason is that of the direction check.
C9_Witness ==
    /\ Filtered
    /\ LET fails == FilterFails(fin.df.row, fin.df.prev_row)
       IN  {k \in 1..7 : fails[k]} = {4, 6, 7}
    /\ fin.df.row.ema20 # fin.df.row.ema50
    /\ fout[1] = [ok |-> FALSE, reason |-> R_NO_DIRECTION]

\* C10: when checks 1-6 pass, the gate rejects, with the expansion reason, if
\* the previous ATR is defined and the ATR is not strictly greater than it, and
\* passes otherwise: when the previous ATR is undefined or lower.
C10_AtrExpansion ==
    (Filtered /\ \A k \in 1..6 : ~FilterFails(fin.df.row, fin.df.prev_row)[k])
    => IF ~isna(fin.df.prev_row.atr14) /\ ~(fin.df.row.atr14 > fin.df.prev_row.atr14)
       THEN fout[1] = [ok |-> FALSE, reason |-> R_ATR_FLAT]
       ELSE fout[1] = [ok |-> TRUE, reason |-> ""]

\* C10 witness: an ATR equal to the previous ATR is rejected.
C10_Witness ==
    /\ Filtered
    /\ \A k \in 1..6 : ~FilterFails(fin.df.row, fin.df.prev_row)[k]
    /\ fin.df.row.atr14 = fin.df.prev_row.atr14
    /\ fout[1] = [ok |-> FALSE, reason |-> R_ATR_FLAT]

\* C10 witness of the skipped check: no previous ATR, and the gate passes.
C10_WitnessSkipped ==
    /\ Filtered
    /\ isna(fin.df.prev_row.atr14)
    /\ fout[1].ok

-----------------------------------------------------------------------------
(* Claims on the dispatch of generate_signal *)

\* The call got past the breaker and compute_indicators returned a table.
Signalled == Called /\ ret.decision.mode = "MOMENTUM_BREAKOUT"

\* Rows of the table of the last call.
CallRows == IndicatorsOf[call.candles].df.len

\* C11: with fewer than MIN_CANDLES_REQUIRED rows the recorded decision is the
\* NONE signal with the insufficient-history reason, confidence 0.0 and no
\* levels, whatever the filters and the directions would say, and no order is
\* returned; with exactly MIN_CANDLES_REQUIRED rows the directions are evaluated.
C11_InsufficientHistory ==
    Signalled =>
        /\ CallRows < 60 =>
            /\ ret.decision =
                 SignalDict(NoSignal(call.symbol, call.timeframe,
                                     "Pas assez d'historique (" \o ToString(CallRows)
                                         \o " < 60)."),
                            IndicatorsOf[call.candles].df.timestamp)
            /\ ret.decision.action = "NONE" /\ ret.decision.confidence = 0
            /\ ~CarriesSomeLevel(ret.decision)
            /\ ret.order = <<>>
            /\ DECISIONS = Append(call.before.DECISIONS, ret.decision)
            /\ ORDERS = call.before.ORDERS
        /\ CallRows >= 60 =>
            ret.decision.reason \in
                {R_ATR_NAN, R_LOW_VOLATILITY, R_EMA_NAN, R_NO_DIRECTION, R_VOL_MA,
                 R_LOW_VOLUME, R_ATR_FLAT, R_LONG_TREND, R_LONG_BREAKOUT, R_LONG_RSI,
                 R_LONG_MACD, R_LONG_SL, R_LONG_OK, R_SHORT_TREND, R_SHORT_BREAKOUT,
                 R_SHORT_RSI, R_SHORT_MACD, R_SHORT_SL, R_SHORT_OK,
                 R_LONG_OK \o R_QTY_ZERO, R_SHORT_OK \o R_QTY_ZERO}

\* C11 witness: 59 candles that would make a LONG with one candle more, equity
\* above zero and the breaker not tripped.
C11_Witness ==
    /\ Signalled
    /\ CallRows = 59
    /\ call.candles.shape = "overshoot"
    /\ call.equity > 0
    /\ ret.decision.reason = "Pas assez d'historique (59 < 60)."
    /\ ret.order = <<>>

\* The EMA test of line 381 on the table given to generate_signal.
ShortFirst ==
    /\ ~isna(fin.df.row.ema20) /\ ~isna(fin.df.row.ema50)
    /\ fin.df.row.ema20 < fin.df.row.ema50

\* C12: with at least MIN_CANDLES_REQUIRED rows, generate_signal returns, when
\* EMA20 < EMA50, the SHORT evaluation if it is confirmed and else the LONG
\* evaluation, and otherwise (EMA20 >= EMA50 or an EMA undefined) the LONG
\* evaluation if it is confirmed and else the SHORT evaluation: the reason of a
\* returned NONE is that of the direction evaluated second.
C12_Dispatch ==
    (Generated /\ fin.df.len >= 60) =>
        LET first == IF ShortFirst THEN fout[1].short ELSE fout[1].long
            second == IF ShortFirst THEN fout[1].long ELSE fout[1].short
            confirmed == IF ShortFirst THEN "SHORT" ELSE "LONG"
        IN  /\ first.action = confirmed => fout[1].signal = first
            /\ first.action # confirmed => fout[1].signal = second
            /\ fout[1].signal.action = "NONE" => fout[1].signal.reason = second.reason

\* C12 witness: EMA20 < EMA50, the SHORT evaluation fails on its RSI test and
\* the returned reason is the trend reason of the LONG evaluation.
C12_Witness ==
    /\ Generated /\ fin.df.len >= 60
    /\ ShortFirst
    /\ fout[1].short.reason = R_SHORT_RSI
    /\ fout[1].signal.action = "NONE"
    /\ fout[1].signal.reason = R_LONG_TREND

\* C13 as claimed: among the tables fin is drawn from, one whose latest row
\* has EMA20 >= EMA50 makes generate_signal return SHORT, and one with
\* EMA20 < EMA50 makes it return LONG.
C13_FallbackAgainstTrend ==
    /\ fin # <<>>
    /\ \E t \in SignalTables \cup FilterTables :
          /\ ~Lt(t.row.ema20, t.row.ema50)
          /\ generate_signal("BTCUSDT", "1m", t).action = "SHORT"
    /\ \E t \in SignalTables \cup FilterTables :
          /\ Lt(t.row.ema20, t.row.ema50)
          /\ generate_signal("BTCUSDT", "1m", t).action = "LONG"

\* C13 amended: the fallback never confirms a signal against the trend:
\* generate_signal returns SHORT only with EMA20 < EMA50 and LONG only with
\* EMA20 > EMA50, since each builder tests the trend itself; when the second
\* direction is evaluated against the trend its result is NONE.
C13_NeverAgainstTrend ==
    Generated =>
        /\ fout[1].signal.action = "SHORT" => Lt(fin.df.row.ema20, fin.df.row.ema50)
        /\ fout[1].signal.action = "LONG" => Gt(fin.df.row.ema20, fin.df.row.ema50)
        /\ ShortFirst => fout[1].long.action = "NONE"
        /\ ~ShortFirst => fout[1].short.action = "NONE"

\* C13 witness: EMA20 > EMA50, the LONG evaluation is not confirmed, and the
\* SHORT evaluation, whose breakout, RSI and MACD tests would all pass, returns
\* NONE on its trend test.
C13_Witness ==
    /\ Generated /\ fin.df.len >= 60
    /\ Gt(fin.df.row.ema20, fin.df.row.ema50)
    /\ fout[1].long.action = "NONE"
    /\ Lt(fin.df.row.close, fin.df.row.ll_20)
    /\ Lt(fin.df.row.close, fin.df.row.bb_lower)
    /\ 10 * fin.df.row.volume > 12 * fin.df.row.vol_ma20
    /\ fin.df.row.rsi14 < 45
    /\ fin.df.row.macd_hist < 0 /\ fin.df.row.macd_hist <= fin.df.prev_row.macd_hist
    /\ _passes_filters(fin.df.row, fin.df.prev_row).ok
    /\ fout[1].signal.action = "NONE"
    /\ fout[1].signal.reason = R_SHORT_TREND

-----------------------------------------------------------------------------
(* Claims on the two builders *)

\* The gate passes: none of its seven checks fails.
GatePasses(df) == \A k \in 1..7 : ~FilterFails(df.row, df.prev_row)[k]

VolumeBreakout(row) ==
    ~isna(row.volume) /\ ~isna(row.vol_ma20) /\ 10 * row.volume > 12 * row.vol_ma20

\* The six conditions of a LONG on the latest row, in the documented order.
LongConditions(df) ==
    <<GatePasses(df),
      Gt(df.row.ema20, df.row.ema50),
      Gt(df.row.close, df.row.hh_20) /\ VolumeBreakout(df.row)
          /\ Gt(df.row.close, df.row.bb_upper),
      Gt(df.row.rsi14, 55),
      Gt(df.row.macd_hist, 0) /\ Ge(df.row.macd_hist, df.prev_row.macd_hist),
      2 * df.row.hh_20 - df.row.atr14 < 2 * df.row.close>>

\* The six conditions of a SHORT, the mirror image.
ShortConditions(df) ==
    <<GatePasses(df),
      Lt(df.row.ema20, df.row.ema50),
      Lt(df.row.close, df.row.ll_20) /\ VolumeBreakout(df.row)
          /\ Lt(df.row.close, df.row.bb_lower),
      Lt(df.row.rsi14, 45),
      Lt(df.row.macd_hist, 0) /\ Le(df.row.macd_hist, df.prev_row.macd_hist),
      2 * df.row.ll_20 + df.row.atr14 > 2 * df.row.close>>

\* The reason of the gate: that of its first failing check.
GateReason(df) ==
    FilterReasons[SetMin({k \in 1..7 : FilterFails(df.row, df.prev_row)[k]})]

LongReasons == <<R_LONG_TREND, R_LONG_BREAKOUT, R_LONG_RSI, R_LONG_MACD, R_LONG_SL>>
ShortReasons == <<R_SHORT_TREND, R_SHORT_BREAKOUT, R_SHORT_RSI, R_SHORT_MACD, R_SHORT_SL>>

\* sig is what a builder must return for the conditions conds.
BuiltAsDocumented(sig, df, conds, action, reasons) ==
    LET unmet == {k \in 1..6 : ~conds[k]}
    IN  /\ sig.action = action <=> unmet = {}
        /\ unmet # {} =>
              /\ sig.action = "NONE"
              /\ sig.reason = IF SetMin(unmet) = 1 THEN GateReason(df)
                              ELSE reasons[SetMin(unmet) - 1]

PairwiseDifferent(reasons) ==
    \A j, k \in 1..Len(reasons) : j # k => reasons[j] # reasons[k]

\* C14: _build_long_signal returns LONG exactly when the gate passes and the
\* trend, breakout, RSI, MACD and stop conditions hold, and otherwise NONE with
\* the reason of the first unmet condition in that order; _build_short_signal is
\* the mirror image; the reasons of each builder are pairwise different.
C14_BuildersExact ==
    Generated =>
        /\ BuiltAsDocumented(fout[1].long, fin.df, LongConditions(fin.df),
                             "LONG", LongReasons)
        /\ BuiltAsDocumented(fout[1].short, fin.df, ShortConditions(fin.df),
                             "SHORT", ShortReasons)
        /\ PairwiseDifferent(FilterReasons \o LongReasons \o <<R_LONG_OK>>)
        /\ PairwiseDifferent(FilterReasons \o ShortReasons \o <<R_SHORT_OK>>)

\* C14 witness: the gate and the trend pass, the breakout fails on the volume
\* alone, RSI and MACD fail too, and the reason is the breakout's.
C14_Witness ==
    /\ Generated
    /\ {k \in 1..6 : ~LongConditions(fin.df)[k]} = {3, 4, 5}
    /\ Gt(fin.df.row.close, fin.df.row.hh_20)
    /\ Gt(fin.df.row.close, fin.df.row.bb_upper)
    /\ ~VolumeBreakout(fin.df.row)
    /\ fout[1].long.action = "NONE"
    /\ fout[1].long.reason = R_LONG_BREAKOUT

\* C14 witness of the confirmed case: all six conditions hold and the builder
\* returns LONG.
C14_WitnessLong ==
    /\ Generated
    /\ \A k \in 1..6 : LongConditions(fin.df)[k]
    /\ fout[1].long.action = "LONG"

-----------------------------------------------------------------------------
(* Claims on the sizing *)

Sized == fin # <<>> /\ fin.op = "_compute_position_size" /\ fout # <<>>
Clamped == fin # <<>> /\ fin.op = "_respect_leverage_constraints" /\ fout # <<>>

\* The fraction x is the quotient n / d (d # 0).
IsQuotient(x, n, d) == x.den > 0 /\ x.num * d = n * x.den

\* C15: _compute_position_size returns 0 when |entry - sl| <= 0 and otherwise
\* max(equity * RISK_PER_TRADE / |entry - sl|, 0); it returns exactly 50 for
\* equity 10000, entry 100 and sl 98; the result is never negative and is the
\* same with entry and sl exchanged.
C15_PositionSize ==
    Sized =>
        LET ticks == Abs(fin.entry - fin.sl)
            qty == fout[1]
        IN  /\ ticks = 0 => qty = [num |-> 0, den |-> 1]
            /\ (ticks > 0 /\ fin.equity > 0) =>
                  IsQuotient(qty, fin.equity * LevelsPerTick, 100 * ticks)
            /\ (ticks > 0 /\ fin.equity <= 0) => qty = [num |-> 0, den |-> 1]
            /\ qty.num >= 0 /\ qty.den > 0
            /\ qty = _compute_position_size(fin.equity, fin.sl, fin.entry)
            /\ (fin.equity = 10000 /\ fin.entry = 100 * LevelsPerTick
                   /\ fin.sl = 98 * LevelsPerTick)
               => qty = [num |-> 50, den |-> 1]

\* C15 witness: equity 10000, entry 98 and sl 100 (the stop above the entry)
\* give 50.
C15_Witness ==
    /\ Sized
    /\ fin.equity = 10000
    /\ fin.entry = 98 * LevelsPerTick /\ fin.sl = 100 * LevelsPerTick
    /\ fout[1] = [num |-> 50, den |-> 1]

\* The three cases of the clamp, and the example: with equity 1000 and entry
\* 100 every qty above 200 comes back as exactly 200.
ClampCases ==
    LET qty == fin.qty
        q == fout[1]
        fits == qty.num * fin.entry <= fin.equity * 20 * LevelsPerTick * qty.den
    IN  /\ fits => q = qty
        /\ (~fits /\ fin.entry <= 0) => q = [num |-> 0, den |-> 1]
        /\ (~fits /\ fin.entry > 0) =>
              IsQuotient(q, fin.equity * 20 * LevelsPerTick, fin.entry)
        /\ (fin.equity = 1000 /\ fin.entry = 100 * LevelsPerTick
               /\ qty.num > 200 * qty.den)
           => q = [num |-> 200, den |-> 1]

\* 0 <= q * entry <= equity * MAX_LEVERAGE and q <= qty.
WithinCap ==
    LET qty == fin.qty
        q == fout[1]
    IN  /\ 0 <= q.num * fin.entry
        /\ q.num * fin.entry <= fin.equity * 20 * LevelsPerTick * q.den
        /\ q.num * qty.den <= qty.num * q.den

-----------------------------------------------------------------------------
(* Claims on the orders *)

\* The decision d is the one the order o was created with.
DecisionOfOrder(d, o) ==
    /\ d.action = (IF o.side = "BUY" THEN "LONG" ELSE "SHORT")
    /\ d.timestamp = o.created_at
    /\ \A k \in Levels : d[k] = o[k]

\* C17: every entry of the order history has qty > 0 and side BUY or SELL and
\* was created in an evaluation whose recorded decision is LONG (for BUY) or
\* SHORT (for SELL) with the same entry, sl, tp1, tp2 and tp3; an evaluation
\* whose decision is NONE, RISK_STOP or ERROR creates no order.
C17_OrdersFromTrades ==
    /\ \A i \in 1..Len(ORDERS) :
          /\ ORDERS[i].qty.num > 0 /\ ORDERS[i].qty.den > 0
          /\ ORDERS[i].side \in {"BUY", "SELL"}
          /\ \E j \in 1..Len(DECISIONS) : DecisionOfOrder(DECISIONS[j], ORDERS[i])
    /\ Called =>
          /\ (ret.decision.action = "NONE"
                 \/ ret.decision.mode \in {"RISK_STOP", "ERROR"})
             => (ret.order = <<>> /\ ORDERS = call.before.ORDERS)
          /\ ORDERS # call.before.ORDERS =>
                /\ ORDERS = Append(call.before.ORDERS, ret.order[1])
                /\ DECISIONS = Append(call.before.DECISIONS, ret.decision)
                /\ DecisionOfOrder(ret.decision, ret.order[1])

\* C17 witness: a BUY created by a LONG evaluation and a SELL created by a
\* SHORT evaluation are both in the order history.
C17_Witness ==
    /\ Len(ORDERS) = 2
    /\ ORDERS[1].side = "BUY" /\ DECISIONS[1].action = "LONG"
    /\ ORDERS[2].side = "SELL" /\ DECISIONS[2].action = "SHORT"

\* The signal of the last call and its final quantity (lines 484-495).
CallSignal ==
    generate_signal(call.symbol, call.timeframe,
                    WithFloatColumns(IndicatorsOf[call.candles].df, call.oracle))
CallQty ==
    _respect_leverage_constraints(
        call.equity, CallSignal.entry,
        _compute_position_size(call.equity, CallSignal.entry, CallSignal.sl))

\* The last call reached the sizing with a confirmed signal and came out of it
\* with a quantity <= 0.
SizedToZero ==
    /\ Called
    /\ ~BreakerTripped(DAILY_PNL, call.equity)
    /\ IndicatorsOf[call.candles].ok
    /\ CallSignal.action \in {"LONG", "SHORT"}
    /\ CallQty.num <= 0

\* C18: when a confirmed LONG or SHORT signal ends with a quantity <= 0 the
\* call returns no order and a decision whose action is NONE and whose reason
\* is the signal's reason followed by the quantity-zero suffix; that decision
\* is recorded and the order history is unchanged. Every call with equity <= 0
\* that passes the breaker with a confirmed signal is such a call.
C18_ZeroQuantityDemotion ==
    /\ SizedToZero =>
          /\ ret.order = <<>>
          /\ ret.decision.action = "NONE"
          /\ ret.decision.reason
                = CallSignal.reason \o " | Taille calculee nulle (qty <= 0)."
          /\ DECISIONS = Append(call.before.DECISIONS, ret.decision)
          /\ ORDERS = call.before.ORDERS
    /\ (/\ Called
        /\ call.equity <= 0
        /\ ~BreakerTripped(DAILY_PNL, call.equity)
        /\ IndicatorsOf[call.candles].ok
        /\ CallSignal.action \in {"LONG", "SHORT"}) => SizedToZero

\* C18 witness: a call with equity 0 and a daily_pnl above the threshold whose
\* signal is a confirmed SHORT, after a call that created an order.
C18_Witness ==
    /\ SizedToZero
    /\ call.equity = 0 /\ DAILY_PNL > 0
    /\ CallSignal.action = "SHORT"
    /\ Len(ORDERS) = 1

-----------------------------------------------------------------------------
(* Claims on the histories *)

\* after is before with x appended, the oldest entry dropped when before held
\* capacity entries.
AppendedWithin(before, x, after, capacity) ==
    /\ Len(before) < capacity => after = Append(before, x)
    /\ Len(before) = capacity =>
          /\ Len(after) = capacity
          /\ \A i \in 1..(capacity - 1) : after[i] = before[i + 1]
          /\ after[capacity] = x

\* C19: the decision history holds at most 500 entries and the order history
\* at most 1000; an append to a full history drops exactly the oldest entry
\* and keeps the others in their order, so that after capacity + 1 appends
\* (the capacity - 1 earlier ones and two calls) the history is the last
\* capacity entries in order.
C19_BoundedHistories ==
    /\ Len(DECISIONS) <= 500
    /\ Len(ORDERS) <= 1000
    /\ Called =>
          /\ AppendedWithin(call.before.DECISIONS, ret.decision, DECISIONS, 500)
          /\ IF ret.order = <<>>
             THEN ORDERS = call.before.ORDERS
             ELSE AppendedWithin(call.before.ORDERS, ret.order[1], ORDERS, 1000)
    /\ (call.n = 2 /\ Len(call.before.DECISIONS) = 500) =>
          /\ \A i \in 1..498 : DECISIONS[i] = EarlierDecision(i + 1)
          /\ DECISIONS[499] = call.before.DECISIONS[500]
          /\ DECISIONS[500] = ret.decision
    /\ (call.n = 2 /\ Len(call.before.ORDERS) = 1000 /\ ret.order # <<>>) =>
          /\ \A i \in 1..998 : ORDERS[i] = EarlierOrder(i + 1)
          /\ ORDERS[999] = call.before.ORDERS[1000]
          /\ ORDERS[1000] = ret.order[1]

\* C19 witness: the second call after 499 earlier decisions and 999 earlier
\* orders appended to both full histories.
C19_Witness ==
    /\ call.n = 2
    /\ Len(call.before.DECISIONS) = 500 /\ Len(call.before.ORDERS) = 1000
    /\ ret.order # <<>>
    /\ DECISIONS[1] = EarlierDecision(2) /\ DECISIONS[500] = ret.decision
    /\ ORDERS[1] = EarlierOrder(2) /\ ORDERS[1000] = ret.order[1]

\* result is the last min(limit, Len(q)) entries of q in their order, and
\* empty for limit <= 0.
RecentOf(q, limit, result) ==
    /\ limit <= 0 => result = <<>>
    /\ limit > 0 =>
          /\ Len(result) = Min2(limit, Len(q))
          /\ \A i \in 1..Len(result) : result[i] = q[Len(q) - Len(result) + i]

\* The histories are as the last evaluation left them.
HistoriesUntouched ==
    Called =>
        /\ AppendedWithin(call.before.DECISIONS, ret.decision, DECISIONS, 500)
        /\ IF ret.order = <<>>
           THEN ORDERS = call.before.ORDERS
           ELSE AppendedWithin(call.before.ORDERS, ret.order[1], ORDERS, 1000)

\* What the accessor call recorded in fout, made since the last evaluation,
\* has returned.
AccessorResult ==
    LET r == fout[1]
    IN  /\ HistoriesUntouched
        /\ r.op = "get_recent_decisions" => RecentOf(DECISIONS, r.limit, r.result)
        /\ r.op = "get_recent_orders" => RecentOf(ORDERS, r.limit, r.result)
        /\ r.op = "get_last_decision" =>
              /\ DECISIONS = <<>> => r.result = None
              /\ DECISIONS # <<>> => r.result = DECISIONS[Len(DECISIONS)]
              /\ Called => r.result = ret.decision
        /\ r.op = "get_pnl_stats" =>
              /\ r.result.daily_pnl = DAILY_PNL
              /\ DAILY_DATE = None => r.result.daily_date = None
              /\ DAILY_DATE # None => r.result.daily_date = IsoFormat(DAILY_DATE)
              /\ (~Called /\ DECISIONS = <<>>) => r.result.daily_date = None
              /\ Called => r.result.daily_date = "1970-01-01"

\* C20: get_recent_decisions and get_recent_orders return the empty list for
\* limit <= 0 and otherwise the last min(limit, size) entries in append order,
\* without modifying the histories; get_last_decision returns None when no
\* decision was recorded and otherwise the decision of the most recent
\* evaluation; get_pnl_stats returns DAILY_PNL and DAILY_DATE (None before the
\* first evaluation).
C20_Accessors == (fout # <<>> /\ fout[1].at = call.n) => AccessorResult

\* C20 witness: get_recent_decisions(2) has returned the last two of 500
\* decisions, the older one first.
C20_Witness ==
    /\ fout # <<>>
    /\ fout[1].op = "get_recent_decisions" /\ fout[1].limit = 2
    /\ Len(DECISIONS) = 500
    /\ call.n = 2 /\ fout[1].at = 2
    /\ DECISIONS[499] # DECISIONS[500]
    /\ fout[1].result = <<DECISIONS[499], DECISIONS[500]>>

-----------------------------------------------------------------------------
(* Claims on concurrent evaluations *)

\* The call of thread t has returned.
Returns(t) == threads[t].pc = "done"

\* C23: with several calls running concurrently, every call given a daily_pnl
\* <= -MAX_DAILY_LOSS * equity returns RISK_STOP with no order, the rollover
\* resets DAILY_PNL at most once per date, and the breaker test of a call
\* that was given a figure reads that figure, not the one of another call.
C23_ConcurrentCallsIsolated ==
    /\ \A t \in Threads :
          (Returns(t) /\ threads[t].daily_pnl # None
             /\ 10 * threads[t].daily_pnl <= -threads[t].equity)
          => (threads[t].ret.decision.mode = "RISK_STOP" /\ threads[t].ret.order = <<>>)
    /\ \A t, u \in Threads :
          (t # u /\ threads[t].pc # "idle" /\ threads[u].pc # "idle"
             /\ threads[t].reset /\ threads[u].reset)
          => threads[t].now_date # threads[u].now_date
    /\ \A t \in Threads :
          (Returns(t) /\ threads[t].daily_pnl # None)
          => threads[t].seen = threads[t].daily_pnl

-----------------------------------------------------------------------------
(* Claims on rejected candle lists *)

\* The message of the ValueError raised for the candle list d.
FailureText(d) ==
    CASE d.form = "empty" -> "Liste de candles vide"
      [] d.form = "no_timestamp" ->
            "Il manque une colonne 'timestamp' ou 'ts' dans les candles"
      [] d.form = "no_open" -> "Colonne 'open' manquante dans les candles"
      [] d.form = "no_high" -> "Colonne 'high' manquante dans les candles"
      [] d.form = "no_low" -> "Colonne 'low' manquante dans les candles"
      [] d.form = "no_close" -> "Colonne 'close' manquante dans les candles"
      [] OTHER -> "Colonne 'volume' manquante dans les candles"

\* The last call was given a candle list that compute_indicators rejects.
CalledRejected == Called /\ call.candles \in RejectedCandleInputs

\* The daily state is what any call with these arguments leaves.
DailyStateAsUsual ==
    /\ DAILY_DATE = call.date
    /\ DAILY_PNL = IF call.daily_pnl = Omitted THEN 0
                   ELSE IF call.daily_pnl # None THEN call.daily_pnl
                   ELSE IF call.before.DAILY_DATE # call.date THEN 0
                   ELSE call.before.DAILY_PNL

\* The ERROR decision of the last call, recorded, with no order.
ErrorRecorded ==
    /\ ret.order = <<>>
    /\ ret.decision.action = "NONE"
    /\ ret.decision.mode = "ERROR"
    /\ ret.decision.confidence = 0
    /\ ret.decision.reason = "Erreur compute_indicators: " \o FailureText(call.candles)
    /\ DECISIONS = Append(call.before.DECISIONS, ret.decision)
    /\ ORDERS = call.before.ORDERS
    /\ DailyStateAsUsual

\* C21 as claimed: for every candle list that compute_indicators rejects the
\* call returns no order and a decision NONE of mode ERROR with confidence 0
\* and the failure text, records it, leaves the orders alone and handles
\* DAILY_PNL and DAILY_DATE as usual.
C21_RejectedAlwaysError == CalledRejected => ErrorRecorded

\* C21 amended: the same whenever the daily-loss breaker does not trip; when
\* it trips the call returns RISK_STOP before the candles are looked at.
C21_RejectedIsError ==
    CalledRejected =>
        /\ ~(10 * DAILY_PNL <= -call.equity) => ErrorRecorded
        /\ (10 * DAILY_PNL <= -call.equity) =>
              /\ ret.order = <<>>
              /\ ret.decision.action = "NONE"
              /\ ret.decision.mode = "RISK_STOP"
              /\ DECISIONS = Append(call.before.DECISIONS, ret.decision)
              /\ ORDERS = call.before.ORDERS
              /\ DailyStateAsUsual

\* C21 witness: candles without "volume" after a call that created an order,
\* on a later day, with the daily_pnl argument None.
C21_Witness ==
    /\ CalledRejected
    /\ call.candles.form = "no_volume"
    /\ ret.decision.mode = "ERROR"
    /\ Len(ORDERS) = 1
    /\ call.daily_pnl = None
    /\ call.before.DAILY_DATE # None /\ call.before.DAILY_DATE # DAILY_DATE

-----------------------------------------------------------------------------
(* Claims on repeated calls *)

\* The step is a call with the arguments of the call before it, on the same
\* UTC date.
RepeatedCall ==
    /\ call.n >= 1
    /\ call'.n = call.n + 1
    /\ call'.symbol = call.symbol /\ call'.timeframe = call.timeframe
    /\ call'.candles = call.candles /\ call'.oracle = call.oracle
    /\ call'.equity = call.equity /\ call'.daily_pnl = call.daily_pnl
    /\ call'.date = call.date

\* The decisions d and e are equal in every field, but for the timestamp of
\* RISK_STOP and ERROR decisions.
SameDecision(d, e) ==
    /\ DOMAIN d = DOMAIN e
    /\ \A k \in DOMAIN d \ {"timestamp"} : d[k] = e[k]
    /\ d.mode \notin {"RISK_STOP", "ERROR"} => d.timestamp = e.timestamp

\* C22: a call repeated with the same symbol, timeframe, candles, equity and
\* daily_pnl on the same date returns a decision equal to the first one in
\* every field but the wall-clock timestamp of RISK_STOP and ERROR decisions,
\* and an equal order, whatever the histories held before the first call.
C22_RepeatedCallSameResult ==
    [][RepeatedCall => (SameDecision(ret.decision, ret'.decision)
                        /\ ret'.order = ret.order)]_vars

\* C22 witness: two calls have left two equal LONG decisions and two equal
\* orders.
C22_Witness ==
    /\ call.n = 2
    /\ Len(DECISIONS) = 2 /\ DECISIONS[1] = DECISIONS[2]
    /\ DECISIONS[2].action = "LONG"
    /\ Len(ORDERS) = 2 /\ ORDERS[1] = ORDERS[2]

\* C22 witness: two calls have left two RISK_STOP decisions that differ in
\* their timestamp only.
C22_WitnessRiskStop ==
    /\ call.n = 2
    /\ Len(DECISIONS) = 2
    /\ DECISIONS[1].mode = "RISK_STOP" /\ DECISIONS[2].mode = "RISK_STOP"
    /\ DECISIONS[1].reason = DECISIONS[2].reason
    /\ DECISIONS[1].timestamp # DECISIONS[2].timestamp
    /\ call.before.DAILY_DATE = DAILY_DATE

-----------------------------------------------------------------------------
(* Claims on decision_loop *)

\* The escalation the comment of line 34 gives.
Escalation == <<5, 10, 20, 40, 60>>

\* The evaluation of symbol s was attempted in its last iteration.
Evaluated(s) == loop.outcome[s] \in {"ok", "order", "failed"}

\* C24: when the evaluation of a symbol fails on each attempt, the backoff
\* assigned at the k-th failure in a row is the k-th of 5, 10, 20, 40, 60, and
\* the backoff is 0 after a successful evaluation.
C24_BackoffEscalates ==
    \A s \in SymbolSet :
        /\ (loop.fails[s] >= 1 /\ loop.fails[s] < MaxFails)
           => loop.assigned[s] = Escalation[Min2(loop.fails[s], Len(Escalation))]
        /\ loop.outcome[s] \in {"ok", "order"} => backoff[s] = 0

\* The step is one iteration of the for loop, on the symbol LoopSymbol.
IterationStep == loop.pc = "symbols" /\ loop'.i # loop.i

\* C25: an iteration on symbol s leaves the backoff and last_trade_at of
\* every other symbol unchanged; after an evaluation that raised, the loop
\* goes on with the next symbol of the same pass; and 0 <= backoff[s] <= 60
\* for every symbol in every state.
C25_BackoffPerSymbol ==
    /\ [](\A s \in SymbolSet : 0 <= backoff[s] /\ backoff[s] <= 60)
    /\ [][IterationStep =>
            /\ \A u \in SymbolSet \ {LoopSymbol} :
                  backoff'[u] = backoff[u] /\ last_trade_at'[u] = last_trade_at[u]
            /\ (backoff'[LoopSymbol] # backoff[LoopSymbol] /\ loop.i < Len(RunnerSymbols))
               => (loop'.pc = "symbols" /\ loop'.i = loop.i + 1 /\ loop'.now = loop.now)
            /\ loop'.outcome[LoopSymbol] = "failed"
               => (loop'.now = loop.now
                   /\ IF loop.i < Len(RunnerSymbols)
                      THEN loop'.pc = "symbols" /\ loop'.i = loop.i + 1
                      ELSE loop'.pc = "sleep")]_vars

\* C25 witness: in one pass the evaluation of the first symbol raised and the
\* second symbol was evaluated and traded, its backoff still 0.
C25_Witness ==
    /\ loop.pc = "sleep" /\ loop.now > 0
    /\ loop.outcome["BTCUSDT"] = "failed" /\ loop.skipped["BTCUSDT"] = 0
    /\ backoff["BTCUSDT"] = 5
    /\ loop.outcome["ETHUSDT"] = "order" /\ backoff["ETHUSDT"] = 0
    /\ last_trade_at["ETHUSDT"] = loop.now /\ last_trade_at["BTCUSDT"] = 0

\* C26: a symbol with klines and backoff k > 0 is skipped, its backoff
\* decreasing by exactly 1, on each pass until the backoff is 0, that is on k
\* passes, and is evaluated on the pass after; a symbol with klines and
\* backoff 0 is evaluated on every pass; so a symbol in backoff is eventually
\* evaluated again.
C26_SkippedThenEvaluated ==
    /\ [][(IterationStep /\ loop.klines[LoopSymbol]) =>
            /\ backoff[LoopSymbol] > 0 =>
                  /\ backoff'[LoopSymbol] = backoff[LoopSymbol] - 1
                  /\ loop'.outcome[LoopSymbol] = "backoff"
                  /\ loop'.skipped[LoopSymbol] = loop.skipped[LoopSymbol] + 1
            /\ backoff[LoopSymbol] = 0 =>
                  /\ loop'.outcome[LoopSymbol] \in {"ok", "order", "failed"}
                  /\ loop.fails[LoopSymbol] > 0
                     => loop.skipped[LoopSymbol] = loop.assigned[LoopSymbol]]_vars
    /\ \A s \in SymbolSet :
          /\ (loop.klines[s] /\ backoff[s] > 0)
                ~> (loop.outcome[s] = "backoff" /\ backoff[s] = 0)
          /\ (loop.outcome[s] = "backoff" /\ backoff[s] = 0) ~> Evaluated(s)

\* C26 witness: the evaluation of a symbol has failed, the symbol has been
\* skipped for its whole backoff and evaluated again (and failed again).
C26_Witness ==
    /\ loop.fails["BTCUSDT"] = 2
    /\ loop.outcome["BTCUSDT"] = "failed"
    /\ loop.skipped["BTCUSDT"] = 0
    /\ backoff["BTCUSDT"] > 0

-----------------------------------------------------------------------------
(* Claims on BinanceWs.stream *)

\* C27: the reconnect backoff of BinanceWs.stream starts at 1, is 1 again
\* whenever a connection is established, is doubled up to the cap of 30 after
\* every disconnect or connection error, and so is always in [1, 30]; the sleep
\* before a reconnect attempt is at most 30 seconds; and every failure is
\* followed by another connect attempt.
C27_ReconnectBackoff ==
    /\ [](/\ 10 <= stream.backoff /\ stream.backoff <= 300
          /\ stream.sleep_s <= 300
          /\ stream.pc = "connected" => stream.backoff = 10
          /\ stream.pc = "sleep" => stream.sleep_s >= stream.backoff)
    /\ [][/\ stream.pc = "sleep"
             => (stream'.pc = "connect"
                 /\ stream'.backoff = Min2(300, 2 * stream.backoff))
          /\ stream'.pc = "sleep" => stream'.backoff = stream.backoff
          /\ stream'.pc = "connected" => stream'.backoff = 10]_stream
    /\ (stream.pc = "sleep") ~> (stream.pc = "connect")

\* C27 witness: after enough failures in a row the backoff is at its cap and
\* the loop is about to connect again.
C27_Witness ==
    stream.pc = "connect" /\ stream.backoff = 300 /\ stream.sleep_s = 300

-----------------------------------------------------------------------------
(* Claims on the stop checks of the two builders *)

\* The gate, trend, breakout, RSI and MACD conditions all hold.
FirstFive(conds) == \A k \in 1..5 : conds[k]

\* C28: the stop checks of the two builders never reject: whenever the gate,
\* trend, breakout, RSI and MACD conditions of a LONG hold, sl = hh_20 - 0.5*ATR
\* is strictly below entry = close, and _build_long_signal never returns the
\* 'sl >= entry' result; whenever those of a SHORT hold, sl = ll_20 + 0.5*ATR is
\* strictly above entry, and _build_short_signal never returns the
\* 'sl <= entry' result.
C28_StopChecksNeverReject ==
    Generated =>
        /\ fout[1].long.reason # R_LONG_SL
        /\ fout[1].short.reason # R_SHORT_SL
        /\ fout[1].signal.reason \notin {R_LONG_SL, R_SHORT_SL}
        /\ FirstFive(LongConditions(fin.df))
           => /\ LongLevels(fin.df.row).sl < LongLevels(fin.df.row).entry
              /\ fout[1].long.action = "LONG"
        /\ FirstFive(ShortConditions(fin.df))
           => /\ ShortLevels(fin.df.row).sl > ShortLevels(fin.df.row).entry
              /\ fout[1].short.action = "SHORT"

\* C28 witness: the five conditions of a SHORT hold with the 20-bar low one
\* point above the close and the least ATR the gate lets through, so that the
\* stop is as near the entry as the tables allow, and SHORT is returned.
C28_Witness ==
    /\ Generated
    /\ FirstFive(ShortConditions(fin.df))
    /\ fin.df.row.ll_20 = fin.df.row.close + 1
    /\ fin.df.row.atr14 = AtrMin + 1
    /\ fout[1].short.action = "SHORT"
    /\ fout[1].short.sl - fout[1].short.entry = 2 + AtrMin + 1

-----------------------------------------------------------------------------
(* Claims on what writes the histories *)

\* The step is a call of evaluate_and_maybe_trade that returns.
EvaluationStep == call'.n # call.n

\* C29: a call of evaluate_and_maybe_trade that returns appends exactly one
\* decision, the one it returns, which get_last_decision gives right after;
\* it appends exactly one order, the returned one, when it returns an order
\* and none otherwise; and every other operation of the engine leaves both
\* histories as they are.
C29_OneDecisionPerCall ==
    [][IF EvaluationStep
       THEN /\ AppendedWithin(DECISIONS, ret'.decision, DECISIONS', DECISIONS_MAXLEN)
            /\ get_last_decision' = ret'.decision
            /\ IF ret'.order = <<>>
               THEN ORDERS' = ORDERS
               ELSE /\ Len(ret'.order) = 1
                    /\ AppendedWithin(ORDERS, ret'.order[1], ORDERS', ORDERS_MAXLEN)
       ELSE DECISIONS' = DECISIONS /\ ORDERS' = ORDERS]_vars

\* C29 witness: the first call, made on histories with room left, returned an
\* order; each history has grown by one; get_last_decision, called after it,
\* returned the decision of that call.
C29_Witness ==
    /\ call.n = 1
    /\ ret.order # <<>>
    /\ Len(DECISIONS) = Len(call.before.DECISIONS) + 1
    /\ Len(ORDERS) = Len(call.before.ORDERS) + 1
    /\ fout # <<>>
    /\ fout[1].at = 1
    /\ fout[1].op = "get_last_decision"
    /\ fout[1].result = ret.decision

-----------------------------------------------------------------------------
(* Claims on can_open_position *)

RiskAnswered == fin # <<>> /\ fin.op = "can_open_position" /\ fout # <<>>

\* The state with the daily_pnl of its i-th symbol set to p.
WithPnl(state, i, p) == [state EXCEPT !.symbols[i].daily_pnl = p]

\* C30: can_open_position returns (False, 'daily loss cap') when the daily
\* loss cap is hit, whatever the open positions are; (False, 'max positions
\* reached') when the cap is not hit and st.open_positions >= MAX_POSITIONS;
\* and (True, '') otherwise. The cap is hit when the daily_pnl of the first
\* symbol of state.symbols is at or below -DAILY_LOSS_CAP, so for any other
\* symbol st the answer is the same whatever st.daily_pnl is.
C30_CanOpenPosition ==
    RiskAnswered =>
        LET first == fin.state.symbols[1]
            st == fin.state.symbols[fin.st]
            cap == first.daily_pnl <= -DAILY_LOSS_CAP
        IN  /\ cap => fout[1] = <<FALSE, "daily loss cap">>
            /\ (~cap /\ st.open_positions >= MAX_POSITIONS)
               => fout[1] = <<FALSE, "max positions reached">>
            /\ (~cap /\ st.open_positions < MAX_POSITIONS) => fout[1] = <<TRUE, "">>
            /\ fin.st # 1 =>
                  \A p \in -DAILY_LOSS_CAP - 1 .. 0 :
                     can_open_position(WithPnl(fin.state, fin.st, p),
                                       WithPnl(fin.state, fin.st, p).symbols[fin.st],
                                       fin.now) = fout[1]

\* C30 witness: the second symbol, itself below the cap and with no open
\* position, is allowed a position because the first symbol is not below it.
C30_Witness ==
    /\ RiskAnswered
    /\ fin.st = 2
    /\ fin.state.symbols[2].daily_pnl = -DAILY_LOSS_CAP - 1
    /\ fin.state.symbols[2].open_positions = 0
    /\ fin.state.symbols[1].daily_pnl = 0
    /\ fin.state.symbols[1].open_positions = MAX_POSITIONS
    /\ fout[1] = <<TRUE, "">>

====
